---- MODULE Spec2Model ----
(***************************************************************************)
(* Model of the simulation kernel of hans-client: the semi-fixed timestep  *)
(* game loop (GameLoop.run / GameLoop.quit) and the lifecycle manager      *)
(* (AgentManager) of src/src/hans/loop.py, the shutdown path of            *)
(* HansPlatform (src/src/hans/client.py), the Shared State                 *)
(* (src/src/hans/state.py), the coroutine Scheduler (src/src/hans/coro.py, *)
(* priority_queue.py), the PositionCodec (position_codec.py) and the       *)
(* TrajectoryGenerator (trajectories.py).                                  *)
(*                                                                         *)
(* Time is counted in integer milliseconds.  The monotonic clock is        *)
(* modelled by `elapsed', the time read since `current_time' was last      *)
(* set; every read of the clock may return any value of Durations that is  *)
(* not smaller than the previous read.                                     *)
(*                                                                         *)
(* The specifications given:                                               *)
(*   Spec      the simulation thread of AgentManager.run together with the *)
(*             I/O thread calling start_session / finish_session / quit;   *)
(*   SpecQuit  one GameLoop.run on a loop thread together with threads     *)
(*             calling GameLoop.quit(timeout) directly;                    *)
(*   SpecShared the I/O thread storing position messages in the Shared     *)
(*             State while the simulation thread takes a snapshot before   *)
(*             every hook;                                                 *)
(*   SpecSched the Scheduler of one round: start_coroutine and step;       *)
(*   SpecControl the I/O thread handling the control messages setup,       *)
(*             start and stop;                                             *)
(*   SpecCodec a bot calling HansClient.send_position in its hook;         *)
(*   SpecReplay a bot setting a trajectory on a TrajectoryGenerator and    *)
(*             replaying it with step.                                     *)
(***************************************************************************)
EXTENDS Integers, Sequences, FiniteSets, TLC

\* ------------------------------------------------------------------ bounds
\* number of rounds (start_session calls) the I/O thread delivers
MaxRounds == 2
\* number of GameLoop.quit calls each direct caller issues (SpecQuit)
MaxQuitCalls == 2
\* number of position messages the I/O thread receives (SpecShared)
MaxMessages == 3
\* number of update()/fixed_update() hooks the wrapper calls (SpecShared)
MaxHooks == 2
\* number of coroutines the bot starts (SpecSched)
MaxCoros == 3
\* number of "setup" control messages (SpecControl)
MaxSetups == 2
\* number of Scheduler.step() calls (SpecSched)
MaxSteps == 2
\* largest value of the monotonic clock, in milliseconds (SpecSched)
MaxClock == 2

\* ------------------------------------------------------------- parameters
\* values a read of the monotonic clock can add, in milliseconds
Durations == {0, 20, 50, 1000}

\* game_loop_kwargs handed to every GameLoop (max_delta_time in ms)
Configs == { [fps |-> 20, tps |-> 20, max_delta_time |-> 333],
             [fps |-> 20, tps |-> 20, max_delta_time |-> 20] }

\* the game_loop_kwargs of the loop that SpecQuit runs
QuitConfig == [fps |-> 20, tps |-> 20, max_delta_time |-> 20]

\* the exception handler registered with add_exc_handler: none, one that calls
\* AgentManager.quit(), or the one of HansPlatform.listen (self.disconnect())
Handlers == {"none", "quit", "disconnect"}

Loops == 1..MaxRounds

\* the participants of the round (participant_ids of State.__init__)
Participants == {1, 2}

\* participant ids found in the topic of a position message: the server (0),
\* the participants of the round, and one that is not in the round
MessageIds == {0, 1, 2, 3}

\* PositionCodec.answer_points, an (n, 2) array
answer_points == << << 2, 0 >>, << -1, 2 >>, << -1, -2 >> >>

\* questions the API serves (question ids)
Questions == {1, 2}

\* coroutines of the bot
Coros == 1..MaxCoros

\* the `after' of start_coroutine and the seconds of sleep(), in milliseconds
Sleeps == {0, 1}

\* what two successive reads of time.monotonic() can differ by, in milliseconds
ClockSteps == {0, 1}

\* encoded positions carried by the position messages, (n,) arrays
Encodings == { << 1, 0, 0 >>, << 0, 1, 1 >> }
Callers == {"c1", "c2"}
Threads == {"sim", "io"} \cup Callers

VARIABLES
    cfg,                  \* game_loop_kwargs
    exc_handler,          \* AgentManager._exc_handler
    pc,                   \* position of every thread
    ret,                  \* where a thread continues after GameLoop.quit returns
    target,               \* the GameLoop a thread calls quit() on (self in quit)
    timeout,              \* timeout argument of the quit() call in progress
    quit_ev,              \* GameLoop._quit, per game loop
    completely_finished,  \* GameLoop._completely_finished, per game loop
    manager_quit,         \* AgentManager._manager_quit
    game_loop_started,    \* AgentManager._game_loop_started
    game_loop,            \* AgentManager._game_loop (0 is None)
    running,              \* the GameLoop whose run() the loop thread executes
    direct,               \* TRUE when run() is called directly, not by AgentManager.run
    accumulator,          \* local of GameLoop.run
    frame_time,           \* local of GameLoop.run (after the clamp)
    delta,                \* local of GameLoop.run
    elapsed,              \* monotonic() - current_time at the last clock read
    exc_info,             \* AgentManager.exc_info ("None" or the exception)
    \* ---- observations of the calls made (history)
    acc0,                 \* accumulator at the start of the iteration
    measured,             \* frame time measured in the iteration, before the clamp
    tick,                 \* calls made on the bot/scheduler in the current iteration
    iterations,           \* TRUE once the loop has completed one iteration
    setup_calls,          \* number of setup() calls, per game loop
    setup_done,           \* setup() returned, per game loop
    close_calls,          \* number of close() calls, per game loop
    handler_calls,        \* number of calls of the exception handler
    created,              \* number of game loops created by start_session
    session,              \* adapter's view: "none", "active" or "stopped" per loop
    stopped_running,      \* finish_session was delivered while that loop was running
    raised,               \* exception propagating on the loop thread ("None" if none)
    quit_calls,           \* number of quit() calls issued per direct caller
    io_exc,               \* exception that left a call made by the I/O thread
    connected,            \* HansPlatform._connected
    bus_up,               \* the MQTT connection is up: loop_forever keeps running
    listen_result,        \* how HansPlatform.listen ended: "running", "returned",
                          \* "raised", "interrupted" or "aborted"
    \* ---- Shared State (state.py) and its two users
    state,                \* State._state: participant id -> position
    lock,                 \* State._lock: "free" or the thread holding it
    msg,                  \* the position update the I/O thread is handling: the
                          \* participant id, the kind of the data argument
                          \* ("array" or "dict") and the encoded position
    copying,              \* the dict get_snapshot() is building
    taken,                \* number of updates stored when get_snapshot() took the lock
    snapshots,            \* every StateSnapshot returned; the last is agent.snapshot
    \* ---- observations (history)
    hist,                 \* the updates stored, in order: [id, position]
    seen,                 \* per hook: the snapshot's map when the hook started
    returned_at,          \* number of updates stored when the last hook returned
    received,             \* number of position messages received
    \* ---- Scheduler (coro.py) on the simulation thread
    tasks,                \* Scheduler._tasks.queue: the heap list of [coro, until]
    clock,                \* the last value read from time.monotonic()
    current,              \* local of _get_next_tasks
    next_tasks,           \* the tasks of step() still to resume
    \* ---- observations (history)
    queued,               \* the queue when the step in progress started
    popped,               \* everything _get_next_tasks returned in that step
    puts,                 \* number of PriorityQueue.put calls made
    started,              \* coroutines handed to start_coroutine
    steps,                \* number of step() calls made
    zero_now,             \* coroutines that slept 0 when resumed in this step
    zero_prev,            \* coroutines that slept 0 when resumed in the step before
    resumed,              \* what each send(None) of the current step did, in order
    finished,             \* coroutines that ended with StopIteration
    \* ---- control messages handled by HansPlatform (client.py)
    current_question,     \* HansPlatform._current_question (0 is None)
    ready_msgs,           \* number of "ready" control messages published
    round_question,       \* the question of the Round handed to start_session, per loop
    \* ---- observations (history)
    setups,               \* number of "setup" control messages handled
    fetched,              \* number of those whose question was fetched
    latest,               \* the question the most recent of those fetched
    \* ---- HansClient.send_position and its PositionCodec
    codec_points,         \* PositionCodec.answer_points
    position,             \* the position handed to the last send_position call
    encoded,              \* what pcodec.encode did in that call: the encoded
                          \* position or the LinAlgError raised
    published,            \* number of messages published to "updates"
    \* ---- observations (history)
    sends,                \* number of send_position calls made
    \* ---- TrajectoryGenerator, its Replayer and PointTransform (trajectories.py)
    trajectory,           \* Replayer._trajectory
    time_multiplier,      \* Replayer._time_multiplier
    idx,                  \* Replayer._idx
    elapsed_time,         \* Replayer._elapsed_time
    angle,                \* PointTransform.angle, in sixths of a turn
    center_pos,           \* PointTransform.center_pos
    new_vertices,         \* PointTransform.new_vertices
    updaters,             \* TrajectoryGenerator._transform_updaters: the speed of
                          \* each, the target and the moving vertex
    \* ---- observations (history)
    args,                 \* the arguments of the set_trajectory call
    first_point,          \* the first point step() returned
    returned_point,       \* the last point step() returned
    driven,               \* the sum of the deltas handed to step()
    replays,              \* number of step() calls made
    finished_steps,       \* number of those that found the replay finished
    factor,               \* the factor of the last interpolation of step()
    start_array,          \* the array the caller passed as start
    center_is_start,      \* center_pos is still that very array
    \* ---- the Scheduler of every round (loop.py, start_session)
    coro_scheduler,       \* GameLoop._coro_scheduler, per game loop: the Scheduler
                          \* object start_session made (0 before), also the
                          \* one of the round's Agent
    scheduled,            \* per Scheduler: the rounds whose coroutines its queue holds
    last_resumed          \* the last step(): the loop that called it and the
                          \* rounds whose coroutines it resumed (history)

vars == << cfg, exc_handler, pc, ret, target, timeout, quit_ev, completely_finished,
           manager_quit, game_loop_started, game_loop, running, direct,
           accumulator, frame_time, delta, elapsed, exc_info,
           acc0, measured, tick, iterations, setup_calls, setup_done, close_calls,
           handler_calls, created, session, stopped_running, raised,
           quit_calls, io_exc, connected, bus_up, listen_result,
           state, lock, msg, copying, taken, snapshots, hist, seen, returned_at,
           received,
           tasks, clock, current, next_tasks, queued, popped, puts, started, steps,
           zero_now, zero_prev, resumed, finished,
           current_question, ready_msgs, round_question, setups, fetched, latest,
           codec_points, position, encoded, published, sends,
           trajectory, time_multiplier, idx, elapsed_time, angle, center_pos,
           new_vertices, updaters, args, first_point, returned_point, driven,
           replays, finished_steps, factor, start_array, center_is_start,
           coro_scheduler, scheduled, last_resumed >>

\* groups for UNCHANGED
confVars  == << cfg, exc_handler, direct >>
evVars    == << quit_ev, completely_finished, manager_quit, game_loop_started >>
localVars == << accumulator, frame_time, delta, elapsed >>
obsVars   == << acc0, measured, tick, iterations >>
hookVars  == << setup_calls, setup_done, close_calls >>
callVars  == << ret, target, timeout, quit_calls >>
ioVars    == << game_loop, created, session, stopped_running, round_question >>
excVars   == << exc_info, raised, handler_calls >>
platVars  == << connected, bus_up, listen_result >>
stateVars == << state, lock, msg, copying, taken, snapshots, hist, seen, returned_at,
                received >>
schedVars == << tasks, clock, current, next_tasks, queued, popped, puts, started,
                steps, zero_now, zero_prev, resumed, finished >>
\* the variables of the parts that neither the loop nor the Shared State touch
ctlVars   == << current_question, ready_msgs, setups, fetched, latest >>
codecVars == << codec_points, position, encoded, published, sends >>
trajVars  == << trajectory, time_multiplier, idx, elapsed_time, angle, center_pos,
                new_vertices, updaters, args, first_point, returned_point, driven,
                replays, finished_steps, factor, start_array, center_is_start >>
roundVars == << coro_scheduler, scheduled, last_resumed >>
numVars   == << codecVars, trajVars, roundVars >>
extVars   == << schedVars, ctlVars, numVars >>

\* ---------------------------------------------------------------- helpers
Min(a, b) == IF a <= b THEN a ELSE b
Max(a, b) == IF a >= b THEN a ELSE b

\* 1 / n seconds, in milliseconds
PerSecond(n) == 1000 \div n

\* GameLoop.__init__
self_frame_time == PerSecond(cfg.fps)
fixed_delta     == PerSecond(cfg.tps)

EffectiveMax(configured, fd) == Max(configured, fd)
max_delta_time  == EffectiveMax(cfg.max_delta_time, fixed_delta)

\* frame_time = min(frame_time, self.max_delta_time)
ClampFrame_None(frame, bound) == frame
ClampFrame(frame, bound) == Min(frame, bound)

\* while accumulator >= self.fixed_delta
DrainCond_Strict(acc, fd) == acc > fd
DrainCond(acc, fd) == acc >= fd

\* delta = min(self.max_delta_time, frame_time + (monotonic() - current_time))
UpdateDelta_Unbounded(frame, spent, bound) == frame + spent
UpdateDelta(frame, spent, bound) == Min(bound, frame + spent)

\* the calls observed in one iteration
FixedCall(d, num) == [call |-> "fixed_update", delta |-> d, sync |-> num]
UpdateCall(d)     == [call |-> "update", delta |-> d, sync |-> 0]
StepCall          == [call |-> "step", delta |-> 0, sync |-> 0]

RECURSIVE CountCalls(_, _)
CountCalls(s, c) ==
    IF s = << >> THEN 0
    ELSE (IF Head(s).call = c THEN 1 ELSE 0) + CountCalls(Tail(s), c)

\* positions of the loop thread inside the body of GameLoop.run
InLoopPcs == {"loop_test", "drain", "update", "step", "sleep", "finish"}
InRunPcs  == {"setup"} \cup InLoopPcs

\* ------------------------------------------------------------------- Init
TypeOK ==
    /\ cfg \in Configs
    /\ exc_handler \in Handlers
    /\ direct \in BOOLEAN
    /\ quit_ev \in [Loops -> BOOLEAN]
    /\ completely_finished \in [Loops -> BOOLEAN]
    /\ manager_quit \in BOOLEAN
    /\ game_loop_started \in BOOLEAN
    /\ game_loop \in 0..MaxRounds
    /\ running \in 0..MaxRounds
    /\ accumulator \in Nat
    /\ frame_time \in Nat
    /\ delta \in Nat
    /\ elapsed \in Nat
    /\ close_calls \in [Loops -> Nat]
    /\ setup_calls \in [Loops -> Nat]

\* np.zeros(2)
Origin == << 0, 0 >>

\* State.__init__: all participants start at (0, 0); nothing received yet
InitialState == [k \in Participants |-> Origin]

NoMessage == [id |-> -1, data |-> "none", position |-> << 0, 0, 0 >>]

StateInit ==
    /\ state = InitialState
    /\ lock = "free"
    /\ msg = NoMessage
    /\ copying = << >>
    /\ taken = 0
    /\ snapshots = << >>
    /\ hist = << >>
    /\ seen = << >>
    /\ returned_at = 0
    /\ received = 0

\* Scheduler.__init__: an empty PriorityQueue
SchedulerInit ==
    /\ tasks = << >>
    /\ clock = 0
    /\ current = 0
    /\ next_tasks = << >>
    /\ queued = << >>
    /\ popped = << >>
    /\ puts = 0
    /\ started = {}
    /\ steps = 0
    /\ zero_now = {}
    /\ zero_prev = {}
    /\ resumed = << >>
    /\ finished = {}

\* no position was encoded yet
NotEncoded == [exc |-> "None", num |-> << >>, den |-> 0]

\* TrajectoryGenerator.__init__: no Replayer, no transformations
GeneratorInit ==
    /\ trajectory = << >>
    /\ time_multiplier = << 1, 1 >>
    /\ idx = 0
    /\ elapsed_time = << 0, 1 >>
    /\ angle = 0
    /\ center_pos = << << 0, 1 >>, << 0, 1 >> >>
    /\ new_vertices = << >>
    /\ updaters = << >>
    /\ args = [start |-> << 0, 0 >>, end |-> << 0, 0 >>,
               duration |-> [kind |-> "None", value |-> << 0, 1 >>]]
    /\ first_point = << >>
    /\ returned_point = << >>
    /\ driven = 0
    /\ replays = 0
    /\ finished_steps = 0
    /\ factor = << 0, 1 >>
    /\ start_array = << << 0, 1 >>, << 0, 1 >> >>
    /\ center_is_start = FALSE

\* no Round yet: no codec, nothing sent
CodecInit ==
    /\ codec_points = << >>
    /\ position = << 0, 0 >>
    /\ encoded = NotEncoded
    /\ published = 0
    /\ sends = 0

InitCommon ==
    /\ scheduled = [s \in Loops |-> {}]
    /\ last_resumed = [by |-> 0, coros |-> {}]
    /\ ret = [t \in Threads |-> "none"]
    /\ target = [t \in Threads |-> 0]
    /\ timeout = [t \in Threads |-> "None"]
    /\ quit_ev = [g \in Loops |-> FALSE]
    /\ completely_finished = [g \in Loops |-> FALSE]
    /\ manager_quit = FALSE
    /\ game_loop_started = FALSE
    /\ accumulator = 0
    /\ frame_time = 0
    /\ delta = 0
    /\ elapsed = 0
    /\ exc_info = "None"
    /\ raised = "None"
    /\ acc0 = 0
    /\ measured = 0
    /\ tick = << >>
    /\ iterations = FALSE
    /\ setup_calls = [g \in Loops |-> 0]
    /\ setup_done = [g \in Loops |-> FALSE]
    /\ close_calls = [g \in Loops |-> 0]
    /\ handler_calls = 0
    /\ session = [g \in Loops |-> "none"]
    /\ stopped_running = [g \in Loops |-> FALSE]
    /\ quit_calls = [c \in Callers |-> 0]
    /\ io_exc = "None"
    /\ connected = TRUE
    /\ bus_up = TRUE
    /\ listen_result = "running"
    /\ StateInit
    /\ SchedulerInit
    /\ current_question = 0
    /\ ready_msgs = 0
    /\ round_question = [g \in Loops |-> 0]
    /\ setups = 0
    /\ fetched = 0
    /\ latest = 0
    /\ GeneratorInit

\* AgentManager.__init__ followed by Thread.start(): the simulation thread is
\* about to evaluate `while not self._manager_quit.is_set()'
Init ==
    /\ InitCommon
    /\ CodecInit
    /\ cfg \in Configs
    /\ exc_handler \in Handlers
    /\ direct = FALSE
    /\ game_loop = 0
    /\ created = 0
    /\ running = 0
    /\ coro_scheduler = [g \in Loops |-> IF g <= created THEN g ELSE 0]
    /\ pc = [t \in Threads |->
               IF t = "sim" THEN "m_while" ELSE IF t = "io" THEN "io_idle" ELSE "unused"]

\* GameLoop.__init__ of one loop whose run() is called on the loop thread while
\* the callers hold a reference to it
InitQuit ==
    /\ InitCommon
    /\ CodecInit
    /\ cfg = QuitConfig
    /\ exc_handler = "none"
    /\ direct = TRUE
    /\ game_loop = 1
    /\ created = 1
    /\ running = 1
    /\ coro_scheduler = [g \in Loops |-> IF g <= created THEN g ELSE 0]
    /\ pc = [t \in Threads |->
               IF t = "sim" THEN "run_check" ELSE IF t = "io" THEN "unused" ELSE "idle"]

\* ------------------------------------------------------------ GameLoop.run
Goto(t, l) == pc' = [pc EXCEPT ![t] = l]

\* an exception leaves run(): into the except clause of AgentManager.run, or out
\* of the thread when run() was called directly
Raise(kind) ==
    /\ raised' = kind
    /\ Goto("sim", IF direct THEN "done" ELSE "m_except")

\* the frame of run() is gone: its locals no longer exist
LocalsDropped ==
    /\ accumulator' = 0
    /\ frame_time' = 0
    /\ delta' = 0
    /\ elapsed' = 0

ObservationsDropped ==
    /\ acc0' = 0
    /\ measured' = 0
    /\ tick' = << >>
    /\ iterations' = FALSE

\* if self._quit.is_set(): raise ValueError
RunCheck ==
    /\ pc["sim"] = "run_check"
    /\ IF quit_ev[running]
         THEN Raise("ValueError") /\ LocalsDropped
         ELSE Goto("sim", "setup") /\ UNCHANGED << raised, localVars >>
    /\ UNCHANGED << confVars, stateVars, extVars, platVars, io_exc, evVars, ioVars, obsVars, hookVars, callVars,
                    running, exc_info, handler_calls >>

\* self._loop.setup(**kwargs); current_time = time.monotonic(); accumulator = 0
RunSetup_Skipped ==
    /\ pc["sim"] = "setup"
    /\ elapsed' = 0
    /\ accumulator' = 0
    /\ Goto("sim", "loop_test")
    /\ UNCHANGED << confVars, stateVars, extVars, platVars, io_exc, evVars, ioVars, obsVars, callVars, running,
                    frame_time, delta, exc_info, handler_calls, raised, hookVars >>

RunSetup ==
    /\ pc["sim"] = "setup"
    /\ setup_calls' = [setup_calls EXCEPT ![running] = @ + 1]
    /\ \E outcome \in {"ok", "raise"} :
         IF outcome = "ok"
           THEN /\ setup_done' = [setup_done EXCEPT ![running] = TRUE]
                /\ scheduled' = [scheduled EXCEPT ![coro_scheduler[running]] =
                                    @ \cup {running}]
                /\ elapsed' = 0
                /\ accumulator' = 0
                /\ Goto("sim", "loop_test")
                /\ UNCHANGED raised
           ELSE /\ Raise("setup")
                /\ elapsed' = 0
                /\ accumulator' = 0
                /\ UNCHANGED << setup_done, scheduled >>
    /\ UNCHANGED << confVars, stateVars, schedVars, ctlVars, codecVars, trajVars, coro_scheduler, last_resumed, platVars, io_exc, evVars, ioVars, obsVars, callVars, running,
                    frame_time, delta, exc_info, handler_calls, close_calls >>

\* while not self._quit.is_set(): ... -> the loop is left
LoopExit ==
    /\ pc["sim"] = "loop_test"
    /\ quit_ev[running]
    /\ Goto("sim", "finish")
    /\ UNCHANGED << confVars, stateVars, extVars, platVars, io_exc, evVars, ioVars, localVars, obsVars, hookVars, callVars,
                    running, excVars >>

\* while not self._quit.is_set(): measure the frame, clamp it, accumulate
BeginIteration ==
    /\ pc["sim"] = "loop_test"
    /\ ~ quit_ev[running]
    /\ \E d \in Durations :
         /\ d >= elapsed
         /\ measured' = d
         /\ frame_time' = ClampFrame(d, max_delta_time)
         /\ accumulator' = accumulator + ClampFrame(d, max_delta_time)
    /\ acc0' = accumulator
    /\ elapsed' = 0
    /\ tick' = << >>
    /\ Goto("sim", "drain")
    /\ UNCHANGED << confVars, stateVars, extVars, platVars, io_exc, evVars, ioVars, hookVars, callVars, running, excVars,
                    delta, iterations >>

\* while accumulator >= self.fixed_delta: fixed_update(...); accumulator -= ...
FixedUpdate ==
    /\ pc["sim"] = "drain"
    /\ DrainCond(accumulator, fixed_delta)
    /\ \E outcome \in {"ok", "raise"} :
         IF outcome = "ok"
           THEN /\ accumulator' = accumulator - fixed_delta
                /\ UNCHANGED << pc, raised, frame_time, delta, elapsed >>
           ELSE /\ Raise("fixed_update")
                /\ LocalsDropped
    /\ tick' = Append(tick, FixedCall(fixed_delta, accumulator))
    /\ UNCHANGED << confVars, stateVars, extVars, platVars, io_exc, evVars, ioVars, hookVars, callVars, running,
                    exc_info, handler_calls, acc0, measured, iterations >>

\* the drain loop ends; delta = min(max_delta_time, frame_time + time spent)
DrainDone ==
    /\ pc["sim"] = "drain"
    /\ ~ DrainCond(accumulator, fixed_delta)
    /\ \E e \in Durations :
         /\ e >= elapsed
         /\ elapsed' = e
         /\ delta' = UpdateDelta(frame_time, e, max_delta_time)
    /\ Goto("sim", "update")
    /\ UNCHANGED << confVars, stateVars, extVars, platVars, io_exc, evVars, ioVars, hookVars, callVars, running, excVars,
                    accumulator, frame_time, obsVars >>

\* self._loop.update(delta)
Update_NoStep ==
    /\ pc["sim"] = "update"
    /\ tick' = Append(tick, UpdateCall(delta))
    /\ \E outcome \in {"ok", "raise"} :
         IF outcome = "ok"
           THEN /\ \E e \in Durations :
                     /\ e >= elapsed
                     /\ elapsed' = e
                     /\ Goto("sim", IF self_frame_time - e > 0 THEN "sleep" ELSE "loop_test")
                /\ iterations' = TRUE
                /\ UNCHANGED << raised, accumulator, frame_time, delta >>
           ELSE /\ Raise("update")
                /\ LocalsDropped
                /\ UNCHANGED iterations
    /\ UNCHANGED << confVars, stateVars, extVars, platVars, io_exc, evVars, ioVars, hookVars, callVars, running,
                    exc_info, handler_calls, acc0, measured >>

Update ==
    /\ pc["sim"] = "update"
    /\ tick' = Append(tick, UpdateCall(delta))
    /\ \E outcome \in {"ok", "raise"} :
         IF outcome = "ok"
           THEN Goto("sim", "step") /\ UNCHANGED << raised, localVars >>
           ELSE Raise("update") /\ LocalsDropped
    /\ UNCHANGED << confVars, stateVars, extVars, platVars, io_exc, evVars, ioVars, hookVars, callVars, running,
                    exc_info, handler_calls, acc0, measured, iterations >>

\* self._coro_scheduler.step(), then the remaining frame time is computed
SchedulerStep ==
    /\ pc["sim"] = "step"
    /\ tick' = Append(tick, StepCall)
    /\ last_resumed' = [by |-> running, coros |-> scheduled[coro_scheduler[running]]]
    /\ \E outcome \in {"ok", "raise"} :
         IF outcome = "ok"
           THEN /\ \E e \in Durations :
                     /\ e >= elapsed
                     /\ elapsed' = e
                     /\ Goto("sim", IF self_frame_time - e > 0 THEN "sleep" ELSE "loop_test")
                /\ iterations' = TRUE
                /\ UNCHANGED << raised, accumulator, frame_time, delta >>
           ELSE /\ Raise("coroutine")
                /\ LocalsDropped
                /\ UNCHANGED iterations
    /\ UNCHANGED << confVars, stateVars, schedVars, ctlVars, codecVars, trajVars, coro_scheduler, scheduled, platVars, io_exc, evVars, ioVars, hookVars, callVars, running,
                    exc_info, handler_calls, acc0, measured >>

\* time.sleep(remaining_frame_time) in the place of the wait on the event
Sleep_Blind ==
    /\ pc["sim"] = "sleep"
    /\ elapsed' = Max(elapsed, self_frame_time)
    /\ Goto("sim", "loop_test")
    /\ UNCHANGED << confVars, stateVars, extVars, platVars, io_exc, evVars, ioVars, hookVars, callVars, running, excVars,
                    accumulator, frame_time, delta, obsVars >>

\* self._quit.wait(remaining_frame_time): returns when quit is set or when the
\* remaining frame time has passed
Sleep ==
    /\ pc["sim"] = "sleep"
    /\ elapsed' = IF quit_ev[running] THEN elapsed ELSE Max(elapsed, self_frame_time)
    /\ Goto("sim", "loop_test")
    /\ UNCHANGED << confVars, stateVars, extVars, platVars, io_exc, evVars, ioVars, hookVars, callVars, running, excVars,
                    accumulator, frame_time, delta, obsVars >>

\* self._completely_finished.set(); run() returns
Finish ==
    /\ pc["sim"] = "finish"
    /\ completely_finished' = [completely_finished EXCEPT ![running] = TRUE]
    /\ Goto("sim", IF direct THEN "done" ELSE "m_while")
    /\ LocalsDropped
    /\ ObservationsDropped
    /\ UNCHANGED << confVars, stateVars, extVars, platVars, io_exc, quit_ev, manager_quit, game_loop_started, ioVars,
                    hookVars, callVars, running, excVars >>

\* -------------------------------------------------------- AgentManager.run
\* while not self._manager_quit.is_set()
ManagerWhile ==
    /\ pc["sim"] = "m_while"
    /\ Goto("sim", IF manager_quit THEN "done" ELSE "m_wait")
    /\ UNCHANGED << confVars, stateVars, extVars, platVars, io_exc, evVars, ioVars, localVars, obsVars, hookVars, callVars,
                    running, excVars >>

\* self._game_loop_started.wait()
ManagerWait ==
    /\ pc["sim"] = "m_wait"
    /\ game_loop_started
    /\ Goto("sim", "m_check")
    /\ UNCHANGED << confVars, stateVars, extVars, platVars, io_exc, evVars, ioVars, localVars, obsVars, hookVars, callVars,
                    running, excVars >>

\* if self._manager_quit.is_set(): break
ManagerCheck ==
    /\ pc["sim"] = "m_check"
    /\ Goto("sim", IF manager_quit THEN "done" ELSE "m_call")
    /\ UNCHANGED << confVars, stateVars, extVars, platVars, io_exc, evVars, ioVars, localVars, obsVars, hookVars, callVars,
                    running, excVars >>

\* self._game_loop.run(**self._agent_kwargs): the attribute is read, run() entered
ManagerCall ==
    /\ pc["sim"] = "m_call"
    /\ running' = game_loop
    /\ Goto("sim", "run_check")
    /\ UNCHANGED << confVars, stateVars, extVars, platVars, io_exc, evVars, ioVars, localVars, obsVars, hookVars, callVars,
                    excVars >>

\* except Exception: self.exc_info = sys.exc_info(); the handler, if any, is
\* called on this thread: handler "quit" calls AgentManager.quit(), handler
\* "disconnect" is the one HansPlatform.listen registers, lambda: self.disconnect()
ManagerExcept_Resume ==
    /\ pc["sim"] = "m_except"
    /\ exc_info' = raised
    /\ IF exc_handler = "none"
         THEN Goto("sim", "m_while") /\ UNCHANGED handler_calls
         ELSE /\ Goto("sim", IF exc_handler = "quit" THEN "mq_set" ELSE "d_check")
              /\ handler_calls' = handler_calls + 1
    /\ ObservationsDropped
    /\ UNCHANGED << confVars, stateVars, extVars, platVars, io_exc, evVars, ioVars, localVars, hookVars,
                    callVars, running, raised >>

ManagerExcept ==
    /\ pc["sim"] = "m_except"
    /\ exc_info' = raised
    /\ IF exc_handler = "none"
         THEN Goto("sim", "done") /\ UNCHANGED handler_calls
         ELSE /\ Goto("sim", IF exc_handler = "quit" THEN "mq_set" ELSE "d_check")
              /\ handler_calls' = handler_calls + 1
    /\ ObservationsDropped
    /\ UNCHANGED << confVars, stateVars, extVars, platVars, io_exc, evVars, ioVars, localVars, hookVars, callVars,
                    running, raised >>

\* ------------------------------------------------------------ GameLoop.quit
\* if self._quit.is_set(): return
QuitCheck(t) ==
    /\ pc[t] = "q_check"
    /\ Goto(t, IF quit_ev[target[t]] THEN ret[t] ELSE "q_set")
    /\ UNCHANGED << confVars, stateVars, extVars, platVars, io_exc, evVars, ioVars, localVars, obsVars, hookVars, callVars,
                    running, excVars >>

\* self._quit.set()
QuitSet(t) ==
    /\ pc[t] = "q_set"
    /\ quit_ev' = [quit_ev EXCEPT ![target[t]] = TRUE]
    /\ Goto(t, "q_wait")
    /\ UNCHANGED << confVars, stateVars, extVars, platVars, io_exc, completely_finished, manager_quit, game_loop_started,
                    ioVars, localVars, obsVars, hookVars, callVars, running, excVars >>

\* self._completely_finished.wait(timeout): returns when the event is set, or,
\* with a finite timeout, when the timeout has passed
QuitWait_NoWait(t) ==
    /\ pc[t] = "q_wait"
    /\ Goto(t, "q_close")
    /\ UNCHANGED << confVars, stateVars, extVars, platVars, io_exc, evVars, ioVars, localVars, obsVars, hookVars, callVars,
                    running, excVars >>

QuitWait(t) ==
    /\ pc[t] = "q_wait"
    /\ completely_finished[target[t]] \/ timeout[t] = "finite"
    /\ Goto(t, "q_close")
    /\ UNCHANGED << confVars, stateVars, extVars, platVars, io_exc, evVars, ioVars, localVars, obsVars, hookVars, callVars,
                    running, excVars >>

\* self._loop.close(); quit() returns.  An exception of close() leaves quit()
\* and every caller up the stack of the calling thread: the message callback of
\* the I/O thread, the exception handler run by the simulation thread, or the
\* direct caller
QuitClose(t) ==
    /\ pc[t] = "q_close"
    /\ close_calls' = [close_calls EXCEPT ![target[t]] = @ + 1]
    /\ \E outcome \in {"ok", "raise"} :
         IF outcome = "ok"
           THEN Goto(t, ret[t]) /\ UNCHANGED io_exc
           ELSE /\ Goto(t, IF t = "io"
                              THEN (IF ret[t] = "fs_return" THEN "io_raised"
                                                           ELSE "io_stopped")
                              ELSE IF t = "sim" THEN "done" ELSE ret[t])
                /\ io_exc' = IF t = "io" THEN "close" ELSE io_exc
    /\ UNCHANGED << confVars, stateVars, extVars, platVars, evVars, ioVars, localVars, obsVars, setup_calls,
                    setup_done, callVars, running, excVars >>

\* -------------------------------------------------------- AgentManager.quit
\* self._manager_quit.set()
ManagerQuitSet(t) ==
    /\ pc[t] = "mq_set"
    /\ manager_quit' = TRUE
    /\ Goto(t, "mq_loop")
    /\ UNCHANGED << confVars, stateVars, extVars, platVars, io_exc, quit_ev, completely_finished, game_loop_started,
                    ioVars, localVars, obsVars, hookVars, callVars, running, excVars >>

\* if self._game_loop is not None: self._game_loop.quit()
ManagerQuitLoop(t) ==
    /\ pc[t] = "mq_loop"
    /\ IF game_loop # 0
         THEN /\ target' = [target EXCEPT ![t] = game_loop]
              /\ timeout' = [timeout EXCEPT ![t] = "None"]
              /\ ret' = [ret EXCEPT ![t] = "mq_started"]
              /\ Goto(t, "q_check")
         ELSE /\ Goto(t, "mq_started")
              /\ UNCHANGED << target, timeout, ret >>
    /\ UNCHANGED << confVars, stateVars, extVars, platVars, io_exc, evVars, ioVars, localVars, obsVars, hookVars,
                    quit_calls, running, excVars >>

\* self._game_loop_started.set(); quit() returns
ManagerQuitStarted(t) ==
    /\ pc[t] = "mq_started"
    /\ game_loop_started' = TRUE
    /\ Goto(t, IF t = "sim" THEN "done" ELSE "io_stopped")
    /\ UNCHANGED << confVars, stateVars, extVars, platVars, io_exc, quit_ev, completely_finished, manager_quit,
                    ioVars, localVars, obsVars, hookVars, callVars, running, excVars >>

\* ------------------------------------------------------------ the I/O thread
SessionActive == \E g \in Loops : session[g] = "active"

\* the loop thread is inside run() of game loop g, past the check of _quit
Running(g) == running = g /\ pc["sim"] \in InRunPcs

\* one Scheduler made for the first round and handed to every later round
NewScheduler_Shared == IF created = 0 THEN 1 ELSE coro_scheduler[1]

\* coro_scheduler = Scheduler(): an object no earlier round holds
NewScheduler == Cardinality({ g \in Loops : coro_scheduler[g] # 0 }) + 1

\* AgentManager.start_session(round, hans_client) creates the GameLoop of the
\* round and sets game_loop_started; the Round carries the question the
\* platform holds (none stored where only the manager is driven)
\* The Scheduler made is handed to the Agent and to the GameLoop of the round
StartSession ==
    /\ pc["io"] = "io_idle"
    /\ bus_up
    /\ ~ SessionActive
    /\ created < MaxRounds
    /\ created' = created + 1
    /\ game_loop' = created + 1
    /\ session' = [session EXCEPT ![created + 1] = "active"]
    /\ round_question' = [round_question EXCEPT ![created + 1] = current_question]
    /\ game_loop_started' = TRUE
    /\ coro_scheduler' = [coro_scheduler EXCEPT ![created + 1] = NewScheduler]
    /\ UNCHANGED << confVars, stateVars, schedVars, ctlVars, codecVars, trajVars, scheduled, last_resumed, platVars, io_exc, pc, quit_ev, completely_finished, manager_quit,
                    localVars, obsVars, hookVars, callVars, running, excVars,
                    stopped_running >>

\* "stop" control message: AgentManager.finish_session clears game_loop_started
\* and calls self._game_loop.quit()
FinishSession ==
    /\ pc["io"] = "io_idle"
    /\ bus_up
    /\ SessionActive
    /\ game_loop_started' = FALSE
    /\ stopped_running' = [stopped_running EXCEPT ![game_loop] = Running(game_loop)]
    /\ target' = [target EXCEPT !["io"] = game_loop]
    /\ timeout' = [timeout EXCEPT !["io"] = "None"]
    /\ ret' = [ret EXCEPT !["io"] = "fs_return"]
    /\ Goto("io", "q_check")
    /\ UNCHANGED << confVars, stateVars, extVars, platVars, io_exc, quit_ev, completely_finished, manager_quit,
                    game_loop, created, session, round_question, localVars, obsVars,
                    hookVars, quit_calls, running, excVars >>

\* finish_session returns
FinishSessionReturn ==
    /\ pc["io"] = "fs_return"
    /\ session' = [session EXCEPT ![target["io"]] = "stopped"]
    /\ Goto("io", "io_idle")
    /\ UNCHANGED << confVars, stateVars, extVars, platVars, io_exc, evVars, game_loop, created, stopped_running,
                    round_question,
                    localVars, obsVars, hookVars, callVars, running, excVars >>

\* HansPlatform.disconnect is called on the I/O thread while listen() is
\* running (__exit__ after loop_forever was interrupted)
Disconnect ==
    /\ pc["io"] = "io_idle"
    /\ listen_result' = "interrupted"
    /\ Goto("io", "d_check")
    /\ UNCHANGED << confVars, stateVars, extVars, connected, bus_up, io_exc, evVars, ioVars, localVars,
                    obsVars, hookVars, callVars, running, excVars >>

\* loop_forever returns once the MQTT connection is closed; listen() re-raises
\* the exception stored by the manager, if any; __exit__ calls disconnect()
ListenReturn ==
    /\ pc["io"] = "io_idle"
    /\ ~ bus_up
    /\ listen_result' = IF exc_info # "None" THEN "raised" ELSE "returned"
    /\ Goto("io", "d_check")
    /\ UNCHANGED << confVars, stateVars, extVars, connected, bus_up, io_exc, evVars, ioVars, localVars,
                    obsVars, hookVars, callVars, running, excVars >>

\* an exception of close() raised in the message callback leaves loop_forever
\* and listen(); __exit__ calls disconnect()
ListenAbort ==
    /\ pc["io"] = "io_raised"
    /\ listen_result' = "aborted"
    /\ Goto("io", "d_check")
    /\ UNCHANGED << confVars, stateVars, extVars, connected, bus_up, io_exc, evVars, ioVars, localVars,
                    obsVars, hookVars, callVars, running, excVars >>

\* ---------------------------------------------------- HansPlatform.disconnect
\* where thread t continues when disconnect() returns
Disconnected(t) == IF t = "sim" THEN "done" ELSE "io_stopped"

\* if not self._connected: return
DisconnectCheck(t) ==
    /\ pc[t] = "d_check"
    /\ Goto(t, IF connected THEN "d_set" ELSE Disconnected(t))
    /\ UNCHANGED << confVars, stateVars, extVars, platVars, io_exc, evVars, ioVars, localVars, obsVars,
                    hookVars, callVars, running, excVars >>

\* self._connected = False
DisconnectSet(t) ==
    /\ pc[t] = "d_set"
    /\ connected' = FALSE
    /\ Goto(t, "d_bus")
    /\ UNCHANGED << confVars, stateVars, extVars, bus_up, listen_result, io_exc, evVars, ioVars, localVars,
                    obsVars, hookVars, callVars, running, excVars >>

\* self._api_wrapper.disconnect()
DisconnectBus(t) ==
    /\ pc[t] = "d_bus"
    /\ bus_up' = FALSE
    /\ Goto(t, "d_alive")
    /\ UNCHANGED << confVars, stateVars, extVars, connected, listen_result, io_exc, evVars, ioVars,
                    localVars, obsVars, hookVars, callVars, running, excVars >>

\* the simulation thread has been started and has not terminated
is_thread_alive == pc["sim"] # "done"

\* if self._agent_manager.is_thread_alive(): self._agent_manager.quit()
DisconnectAlive(t) ==
    /\ pc[t] = "d_alive"
    /\ Goto(t, IF is_thread_alive THEN "mq_set" ELSE Disconnected(t))
    /\ UNCHANGED << confVars, stateVars, extVars, platVars, io_exc, evVars, ioVars, localVars, obsVars,
                    hookVars, callVars, running, excVars >>

\* --------------------------------------------- direct callers of GameLoop.quit
\* game_loop.quit(timeout) with timeout None or a finite number of seconds
QuitCall(c) ==
    /\ pc[c] = "idle"
    /\ quit_calls[c] < MaxQuitCalls
    /\ quit_calls' = [quit_calls EXCEPT ![c] = @ + 1]
    /\ \E to \in {"None", "finite"} : timeout' = [timeout EXCEPT ![c] = to]
    /\ target' = [target EXCEPT ![c] = 1]
    /\ ret' = [ret EXCEPT ![c] = "idle"]
    /\ Goto(c, "q_check")
    /\ UNCHANGED << confVars, stateVars, extVars, platVars, io_exc, evVars, ioVars, localVars, obsVars, hookVars,
                    running, excVars >>

\* =============================================================== state.py
\* everything but the Shared State and the positions of the threads
loopVars == << confVars, platVars, io_exc, evVars, ioVars, localVars, obsVars,
               hookVars, callVars, running, excVars >>

\* PositionCodec.decode: self.answer_points.T @ encoded_position
decode(e) ==
    << answer_points[1][1] * e[1] + answer_points[2][1] * e[2] + answer_points[3][1] * e[3],
       answer_points[1][2] * e[1] + answer_points[2][2] * e[2] + answer_points[3][2] * e[3] >>

\* d[key] = value on a dict: the key is inserted when it is missing
SetItem(d, key, value) ==
    [k \in DOMAIN d \cup {key} |-> IF k = key THEN value ELSE d[k]]

\* if participant_id == 0: return
IsServer_Never(id) == FALSE
IsServer(id) == id = 0

\* the map a StateSnapshot reads: its own dict, or the dict of the State when
\* it holds a reference to that one
Contents(snap) == IF snap.alias THEN state ELSE snap.map

\* ---- I/O thread: a position message arrives on a participant topic
Receive ==
    /\ pc["io"] = "recv"
    /\ received < MaxMessages
    /\ received' = received + 1
    /\ \E id \in MessageIds, e \in Encodings :
         msg' = [id |-> id, data |-> "array", position |-> e]
    /\ Goto("io", "on_message")
    /\ UNCHANGED << loopVars, extVars, state, lock, copying, taken, snapshots, hist, seen,
                    returned_at >>

\* HansPlatform._on_message, update branch: the server's messages are ignored,
\* the others are passed on as np.array(payload["data"]["position"])
OnMessage ==
    /\ pc["io"] = "on_message"
    /\ Goto("io", IF IsServer(msg.id) THEN "recv" ELSE "on_changed")
    /\ UNCHANGED << loopVars, extVars, stateVars >>

\* AgentManager.on_changed_position(participant_id, data) is called with the
\* mapping its body reads, {"position": ...}
CallChangedPosition ==
    /\ pc["io"] = "recv"
    /\ received < MaxMessages
    /\ received' = received + 1
    /\ \E id \in MessageIds, e \in Encodings :
         msg' = [id |-> id, data |-> "dict", position |-> e]
    /\ Goto("io", "on_changed")
    /\ UNCHANGED << loopVars, extVars, state, lock, copying, taken, snapshots, hist, seen,
                    returned_at >>

\* AgentManager.on_changed_position: np.array(data["position"]) raises
\* IndexError when data is an ndarray, which is what _on_message passes; the
\* exception leaves the message callback
OnChangedPosition ==
    /\ pc["io"] = "on_changed"
    /\ IF IsServer(msg.id)
         THEN Goto("io", "recv") /\ UNCHANGED io_exc
         ELSE IF msg.data = "array"
                THEN Goto("io", "io_raised") /\ io_exc' = "IndexError"
                ELSE Goto("io", "u_lock") /\ UNCHANGED io_exc
    /\ UNCHANGED << confVars, platVars, evVars, ioVars, localVars, obsVars,
                    hookVars, callVars, running, excVars, stateVars, extVars >>

\* State.update: with self._lock
UpdateAcquire_NoLock ==
    /\ pc["io"] = "u_lock"
    /\ Goto("io", "u_store")
    /\ UNCHANGED << loopVars, extVars, stateVars >>

UpdateAcquire ==
    /\ pc["io"] = "u_lock"
    /\ lock = "free"
    /\ lock' = "io"
    /\ Goto("io", "u_store")
    /\ UNCHANGED << loopVars, extVars, state, msg, copying, taken, snapshots, hist, seen,
                    returned_at, received >>

\* self._state[participant_id] = self._pcodec.decode(position)
UpdateStore ==
    /\ pc["io"] = "u_store"
    /\ state' = SetItem(state, msg.id, decode(msg.position))
    /\ hist' = Append(hist, [id |-> msg.id, position |-> decode(msg.position)])
    /\ Goto("io", "u_unlock")
    /\ UNCHANGED << loopVars, extVars, lock, msg, copying, taken, snapshots, seen, returned_at,
                    received >>

\* leaving the with block
UpdateRelease ==
    /\ pc["io"] = "u_unlock"
    /\ lock' = IF lock = "io" THEN "free" ELSE lock
    /\ Goto("io", "recv")
    /\ UNCHANGED << loopVars, extVars, state, msg, copying, taken, snapshots, hist, seen,
                    returned_at, received >>

\* ---- simulation thread: _AgentWrapper.update / fixed_update
\* self.state.get_snapshot(): with self._lock
SnapshotAcquire_Cached ==
    /\ pc["sim"] = "w_call"
    /\ Len(seen) < MaxHooks
    /\ IF seen = << >>
         THEN /\ lock = "free"
              /\ lock' = "sim"
              /\ copying' = << >>
              /\ taken' = Len(hist)
              /\ Goto("sim", "g_copy")
              /\ UNCHANGED << snapshots, seen >>
         ELSE /\ snapshots' = Append(snapshots, snapshots[Len(snapshots)])
              /\ seen' = Append(seen, seen[Len(seen)])
              /\ Goto("sim", "hook")
              /\ UNCHANGED << lock, copying, taken >>
    /\ UNCHANGED << loopVars, extVars, state, msg, hist, returned_at, received >>

SnapshotAcquire ==
    /\ pc["sim"] = "w_call"
    /\ Len(seen) < MaxHooks
    /\ lock = "free"
    /\ lock' = "sim"
    /\ copying' = << >>
    /\ taken' = Len(hist)
    /\ Goto("sim", "g_copy")
    /\ UNCHANGED << loopVars, extVars, state, msg, snapshots, hist, seen, returned_at, received >>

\* one step of the dict comprehension: participant_id: position.copy()
SnapshotCopy ==
    /\ pc["sim"] = "g_copy"
    /\ DOMAIN state \ DOMAIN copying # {}
    /\ LET k == CHOOSE x \in DOMAIN state \ DOMAIN copying :
                  \A y \in DOMAIN state \ DOMAIN copying : x <= y
       IN  copying' = SetItem(copying, k, state[k])
    /\ UNCHANGED << loopVars, extVars, pc, state, lock, msg, taken, snapshots, hist, seen,
                    returned_at, received >>

\* get_snapshot() returns a StateSnapshot of the new dict and releases the lock;
\* the wrapper stores it in agent.snapshot and calls the hook of the bot
SnapshotReturn_Alias ==
    /\ pc["sim"] = "g_copy"
    /\ DOMAIN state \ DOMAIN copying = {}
    /\ lock' = IF lock = "sim" THEN "free" ELSE lock
    /\ snapshots' = Append(snapshots, [alias |-> TRUE, map |-> copying])
    /\ seen' = Append(seen, [at |-> taken, map |-> copying])
    /\ Goto("sim", "hook")
    /\ UNCHANGED << loopVars, extVars, state, msg, copying, taken, hist, returned_at, received >>

SnapshotReturn ==
    /\ pc["sim"] = "g_copy"
    /\ DOMAIN state \ DOMAIN copying = {}
    /\ lock' = IF lock = "sim" THEN "free" ELSE lock
    /\ snapshots' = Append(snapshots, [alias |-> FALSE, map |-> copying])
    /\ seen' = Append(seen, [at |-> taken, map |-> copying])
    /\ Goto("sim", "hook")
    /\ UNCHANGED << loopVars, extVars, state, msg, copying, taken, hist, returned_at, received >>

\* self._agent.update(delta) / self._agent.fixed_update(delta, sync_ratio) returns
HookReturn ==
    /\ pc["sim"] = "hook"
    /\ returned_at' = Len(hist)
    /\ Goto("sim", "w_call")
    /\ UNCHANGED << loopVars, extVars, state, lock, msg, copying, taken, snapshots, hist, seen,
                    received >>

\* ================================================== coro.py, priority_queue.py
\* everything but the Scheduler and the positions of the threads
baseVars == << loopVars, stateVars, ctlVars, numVars >>

\* a read of time.monotonic(): not smaller than the previous read
ClockReads == { clock + d : d \in ClockSteps } \cap 0..MaxClock

\* _wrapper.__lt__ of dataclass(order=True): order_items = (task.until,) is
\* compared, data is not (compare=False)
Less_Reversed(a, b) == a.until > b.until
Less(a, b) == a.until < b.until

\* heapq._siftdown(heap, startpos, pos); positions count from 0, heap[p] is h[p + 1]
RECURSIVE SiftDownFrom(_, _, _, _)
SiftDownFrom(h, startpos, pos, newitem) ==
    IF pos > startpos /\ Less(newitem, h[((pos - 1) \div 2) + 1])
      THEN SiftDownFrom([h EXCEPT ![pos + 1] = h[((pos - 1) \div 2) + 1]],
                        startpos, (pos - 1) \div 2, newitem)
      ELSE [h EXCEPT ![pos + 1] = newitem]

siftdown(h, startpos, pos) == SiftDownFrom(h, startpos, pos, h[pos + 1])

\* heapq._siftup(heap, pos): the smaller child is moved up until a leaf is
\* reached (the right one when the left one is not smaller), then newitem is
\* sifted down from there
RECURSIVE SiftUpFrom(_, _, _, _)
SiftUpFrom(h, startpos, pos, newitem) ==
    LET endpos   == Len(h)
        leftpos  == 2 * pos + 1
        rightpos == leftpos + 1
        childpos == IF rightpos < endpos /\ ~ Less(h[leftpos + 1], h[rightpos + 1])
                      THEN rightpos ELSE leftpos
    IN  IF leftpos < endpos
          THEN SiftUpFrom([h EXCEPT ![pos + 1] = h[childpos + 1]], startpos, childpos,
                          newitem)
          ELSE siftdown([h EXCEPT ![pos + 1] = newitem], startpos, pos)

siftup(h, pos) == SiftUpFrom(h, pos, pos, h[pos + 1])

\* heapq.heappush(heap, item)
heappush(h, item) == siftdown(Append(h, item), 0, Len(h))

\* heapq.heappop(heap): the heap left and the item returned
heappop(h) ==
    LET lastelt == h[Len(h)]
        rest    == SubSeq(h, 1, Len(h) - 1)
    IN  IF rest # << >>
          THEN [heap |-> siftup([rest EXCEPT ![1] = lastelt], 0), item |-> h[1]]
          ELSE [heap |-> rest, item |-> lastelt]

\* put with the wake-up time lost
put_AtZero(h, coro, until, n) == heappush(h, [coro |-> coro, until |-> 0, n |-> n])

\* PriorityQueue.put(item); n numbers the put calls (not part of the program)
put(h, coro, until, n) == heappush(h, [coro |-> coro, until |-> until, n |-> n])

\* the while loop of _get_next_tasks:
\* while len(self._tasks) > 0 and current > self._tasks.peek().until
RECURSIVE PopDue(_, _, _)
PopDue(h, cur, acc) ==
    IF Len(h) > 0 /\ cur > h[1].until
      THEN PopDue(heappop(h).heap, cur, Append(acc, heappop(h).item))
      ELSE [heap |-> h, next |-> acc]

\* Loop.start_coroutine(coro, after) called by the bot, between two steps or
\* from a coroutine that step() is resuming:
\* self._coro_scheduler.add_task(WaitTask.from_sleep_time(coro, after)).
\* Coroutines are numbered in the order they are started
StartCoroutine ==
    /\ pc["sim"] \in {"sch_idle", "sch_resume"}
    /\ \E c \in Coros, after \in Sleeps, t \in ClockReads :
         /\ c = Cardinality(started) + 1
         /\ started' = started \cup {c}
         /\ clock' = t
         /\ tasks' = put(tasks, c, t + after, puts + 1)
    /\ puts' = puts + 1
    /\ UNCHANGED << baseVars, pc, current, next_tasks, queued, popped, steps,
                    zero_now, zero_prev, resumed, finished >>

\* Scheduler.step(): return when the queue is empty, else
\* next_tasks = self._get_next_tasks()
StepBegin ==
    /\ pc["sim"] = "sch_idle"
    /\ steps < MaxSteps
    /\ steps' = steps + 1
    /\ queued' = tasks
    /\ zero_prev' = zero_now
    /\ zero_now' = {}
    /\ resumed' = << >>
    /\ IF Len(tasks) = 0
         THEN /\ popped' = << >>
              /\ UNCHANGED << pc, tasks, clock, current, next_tasks >>
         ELSE \E t \in ClockReads :
                /\ clock' = t
                /\ current' = t
                /\ tasks' = PopDue(tasks, t, << >>).heap
                /\ next_tasks' = PopDue(tasks, t, << >>).next
                /\ popped' = PopDue(tasks, t, << >>).next
                /\ Goto("sim", "sch_resume")
    /\ UNCHANGED << baseVars, puts, started, finished >>

\* a loop that hands a coroutine that slept 0 back to the running step
StepResume_SameStep ==
    /\ pc["sim"] = "sch_resume"
    /\ next_tasks # << >>
    /\ LET task == Head(next_tasks) IN
       \/ \E seconds \in Sleeps, t \in ClockReads :
            /\ clock' = t
            /\ tasks' = IF seconds = 0 THEN tasks
                        ELSE put(tasks, task.coro, t + seconds, puts + 1)
            /\ puts' = puts + 1
            /\ zero_now' = IF seconds = 0 THEN zero_now \cup {task.coro} ELSE zero_now
            /\ next_tasks' = IF seconds = 0
                               THEN Append(Tail(next_tasks),
                                           [coro |-> task.coro, until |-> t, n |-> puts + 1])
                               ELSE Tail(next_tasks)
            /\ resumed' = Append(resumed, [coro |-> task.coro, n |-> task.n,
                                           slept |-> seconds, at |-> t])
            /\ UNCHANGED << pc, finished >>
       \/ /\ next_tasks' = Tail(next_tasks)
          /\ resumed' = Append(resumed, [coro |-> task.coro, n |-> task.n,
                                         slept |-> -1, at |-> clock])
          /\ finished' = finished \cup {task.coro}
          /\ UNCHANGED << pc, tasks, clock, puts, zero_now >>
       \/ /\ Goto("sim", "sch_raised")
          /\ next_tasks' = << >>
          /\ UNCHANGED << tasks, clock, puts, zero_now, resumed, finished >>
    /\ UNCHANGED << baseVars, current, queued, popped, started, steps, zero_prev >>

\* one turn of `for task in next_tasks': task.coro.send(None) yields the
\* seconds to sleep and the task is put back, or the coroutine finishes
\* (StopIteration), or it raises (also ValueError for a value that is no float)
StepResume ==
    /\ pc["sim"] = "sch_resume"
    /\ next_tasks # << >>
    /\ LET task == Head(next_tasks) IN
       \/ \E seconds \in Sleeps, t \in ClockReads :
            /\ clock' = t
            /\ tasks' = put(tasks, task.coro, t + seconds, puts + 1)
            /\ puts' = puts + 1
            /\ zero_now' = IF seconds = 0 THEN zero_now \cup {task.coro} ELSE zero_now
            /\ next_tasks' = Tail(next_tasks)
            /\ resumed' = Append(resumed, [coro |-> task.coro, n |-> task.n,
                                           slept |-> seconds, at |-> t])
            /\ UNCHANGED << pc, finished >>
       \/ /\ next_tasks' = Tail(next_tasks)
          /\ resumed' = Append(resumed, [coro |-> task.coro, n |-> task.n,
                                         slept |-> -1, at |-> clock])
          /\ finished' = finished \cup {task.coro}
          /\ UNCHANGED << pc, tasks, clock, puts, zero_now >>
       \/ /\ Goto("sim", "sch_raised")
          /\ next_tasks' = << >>
          /\ UNCHANGED << tasks, clock, puts, zero_now, resumed, finished >>
    /\ UNCHANGED << baseVars, current, queued, popped, started, steps, zero_prev >>

\* step() returns
StepEnd ==
    /\ pc["sim"] = "sch_resume"
    /\ next_tasks = << >>
    /\ Goto("sim", "sch_idle")
    /\ UNCHANGED << baseVars, schedVars >>

\* ================================ client.py: HansPlatform._handle_control_msgs
\* "setup": self._set_current_question(collection_id, question_id) fetches the
\* question (the HTTP requests may raise), stores it and sends the ready
\* message
HandleSetup_KeepFirst ==
    /\ pc["io"] = "io_idle"
    /\ bus_up
    /\ setups < MaxSetups
    /\ setups' = setups + 1
    /\ \/ \E q \in Questions :
            /\ current_question' = IF current_question = 0 THEN q ELSE current_question
            /\ ready_msgs' = ready_msgs + 1
            /\ fetched' = fetched + 1
            /\ latest' = q
            /\ UNCHANGED << pc, io_exc >>
       \/ /\ io_exc' = "api"
          /\ Goto("io", "io_raised")
          /\ UNCHANGED << current_question, ready_msgs, fetched, latest >>
    /\ UNCHANGED << confVars, stateVars, schedVars, numVars, platVars, evVars, ioVars, localVars,
                    obsVars, hookVars, callVars, running, excVars >>

HandleSetup ==
    /\ pc["io"] = "io_idle"
    /\ bus_up
    /\ setups < MaxSetups
    /\ setups' = setups + 1
    /\ \/ \E q \in Questions :
            /\ current_question' = q
            /\ ready_msgs' = ready_msgs + 1
            /\ fetched' = fetched + 1
            /\ latest' = q
            /\ UNCHANGED << pc, io_exc >>
       \/ /\ io_exc' = "api"
          /\ Goto("io", "io_raised")
          /\ UNCHANGED << current_question, ready_msgs, fetched, latest >>
    /\ UNCHANGED << confVars, stateVars, schedVars, numVars, platVars, evVars, ioVars, localVars,
                    obsVars, hookVars, callVars, running, excVars >>

\* "start": CannotStartRoundException when no question is stored, else the
\* Round is built from self._current_question and start_session is called
HandleStart_NoCheck ==
    StartSession

HandleStart ==
    IF current_question = 0
      THEN /\ pc["io"] = "io_idle"
           /\ bus_up
           /\ io_exc' = "CannotStartRound"
           /\ Goto("io", "io_raised")
           /\ UNCHANGED << confVars, stateVars, extVars, platVars, evVars, ioVars,
                           localVars, obsVars, hookVars, callVars, running, excVars >>
      ELSE StartSession

\* ---------------------------------------------------------- specifications
LoopThread ==
    \/ RunCheck
    \/ RunSetup
    \/ LoopExit
    \/ BeginIteration
    \/ FixedUpdate
    \/ DrainDone
    \/ Update
    \/ SchedulerStep
    \/ Sleep
    \/ Finish

Next ==
    \/ LoopThread
    \/ ManagerWhile
    \/ ManagerWait
    \/ ManagerCheck
    \/ ManagerCall
    \/ ManagerExcept
    \/ StartSession
    \/ FinishSession
    \/ FinishSessionReturn
    \/ Disconnect
    \/ ListenReturn
    \/ ListenAbort
    \/ \E t \in {"sim", "io"} : DisconnectCheck(t)
    \/ \E t \in {"sim", "io"} : DisconnectSet(t)
    \/ \E t \in {"sim", "io"} : DisconnectBus(t)
    \/ \E t \in {"sim", "io"} : DisconnectAlive(t)
    \/ \E t \in {"sim", "io"} : QuitCheck(t)
    \/ \E t \in {"sim", "io"} : QuitSet(t)
    \/ \E t \in {"sim", "io"} : QuitWait(t)
    \/ \E t \in {"sim", "io"} : QuitClose(t)
    \/ \E t \in {"sim", "io"} : ManagerQuitSet(t)
    \/ \E t \in {"sim", "io"} : ManagerQuitLoop(t)
    \/ \E t \in {"sim", "io"} : ManagerQuitStarted(t)

Spec == Init /\ [][Next]_vars

NextQuit ==
    \/ LoopThread
    \/ \E c \in Callers : QuitCall(c)
    \/ \E c \in Callers : QuitCheck(c)
    \/ \E c \in Callers : QuitSet(c)
    \/ \E c \in Callers : QuitWait(c)
    \/ \E c \in Callers : QuitClose(c)

SpecQuit == InitQuit /\ [][NextQuit]_vars

\* a round whose Shared State is written by the I/O thread (position messages)
\* and read by the simulation thread (one snapshot before every hook)
InitShared ==
    /\ InitCommon
    /\ CodecInit
    /\ cfg = QuitConfig
    /\ exc_handler = "none"
    /\ direct = FALSE
    /\ game_loop = 1
    /\ created = 1
    /\ running = 1
    /\ coro_scheduler = [g \in Loops |-> IF g <= created THEN g ELSE 0]
    /\ pc = [t \in Threads |->
               IF t = "sim" THEN "w_call" ELSE IF t = "io" THEN "recv" ELSE "unused"]

NextShared ==
    \/ Receive
    \/ OnMessage
    \/ CallChangedPosition
    \/ OnChangedPosition
    \/ UpdateAcquire
    \/ UpdateStore
    \/ UpdateRelease
    \/ SnapshotAcquire
    \/ SnapshotCopy
    \/ SnapshotReturn
    \/ HookReturn

SpecShared == InitShared /\ [][NextShared]_vars

\* HansPlatform.listen(): the I/O thread handles the control messages setup,
\* start and stop; the simulation thread runs the rounds
InitControl ==
    /\ InitCommon
    /\ CodecInit
    /\ cfg = QuitConfig
    /\ exc_handler = "disconnect"
    /\ direct = FALSE
    /\ game_loop = 0
    /\ created = 0
    /\ running = 0
    /\ coro_scheduler = [g \in Loops |-> IF g <= created THEN g ELSE 0]
    /\ pc = [t \in Threads |->
               IF t = "sim" THEN "m_while" ELSE IF t = "io" THEN "io_idle" ELSE "unused"]

NextControl ==
    \/ HandleSetup
    \/ HandleStart
    \/ LoopThread
    \/ ManagerWhile
    \/ ManagerWait
    \/ ManagerCheck
    \/ ManagerCall
    \/ ManagerExcept
    \/ FinishSession
    \/ FinishSessionReturn
    \/ Disconnect
    \/ ListenReturn
    \/ ListenAbort
    \/ \E t \in {"sim", "io"} : DisconnectCheck(t)
    \/ \E t \in {"sim", "io"} : DisconnectSet(t)
    \/ \E t \in {"sim", "io"} : DisconnectBus(t)
    \/ \E t \in {"sim", "io"} : DisconnectAlive(t)
    \/ \E t \in {"sim", "io"} : QuitCheck(t)
    \/ \E t \in {"sim", "io"} : QuitSet(t)
    \/ \E t \in {"sim", "io"} : QuitWait(t)
    \/ \E t \in {"sim", "io"} : QuitClose(t)
    \/ \E t \in {"sim", "io"} : ManagerQuitSet(t)
    \/ \E t \in {"sim", "io"} : ManagerQuitLoop(t)
    \/ \E t \in {"sim", "io"} : ManagerQuitStarted(t)

SpecControl == InitControl /\ [][NextControl]_vars

\* the Scheduler of one round, driven by the simulation thread: the bot starts
\* coroutines and the game loop calls step() once per iteration
InitSched ==
    /\ InitCommon
    /\ CodecInit
    /\ cfg = QuitConfig
    /\ exc_handler = "none"
    /\ direct = FALSE
    /\ game_loop = 1
    /\ created = 1
    /\ running = 1
    /\ coro_scheduler = [g \in Loops |-> IF g <= created THEN g ELSE 0]
    /\ pc = [t \in Threads |-> IF t = "sim" THEN "sch_idle" ELSE "unused"]

NextSched ==
    \/ StartCoroutine
    \/ StepBegin
    \/ StepResume
    \/ StepEnd

SpecSched == InitSched /\ [][NextSched]_vars

\* ------------------------------------------------- PositionCodec, send_position
\* Coordinates are integers.  np.linalg.solve is carried out exactly: a
\* solution is kept as numerators over the determinant of the system, so an
\* encoded position is [num |-> one numerator per answer, den |-> determinant].

\* number of send_position calls the bot makes
MaxSends == 2

\* HansPlatform.__init__: the default of hexagon_radius
hexagon_radius == 340

\* utils.calculate_answer_points(num_answers, radius): num_answers points on
\* the circle, from the angle -pi/2 on, each coordinate truncated towards
\* zero (the values np.trunc gives in IEEE double arithmetic), for the radii
\* 340 and 10
calculate_answer_points(num_answers, radius) ==
    CASE num_answers = 2 /\ radius = 340 -> << <<0, -340>>, <<0, 340>> >>
      [] num_answers = 3 /\ radius = 340 ->
           << <<0, -340>>, <<294, 169>>, <<-294, 170>> >>
      [] num_answers = 4 /\ radius = 340 ->
           << <<0, -340>>, <<340, 0>>, <<0, 340>>, <<-340, 0>> >>
      [] num_answers = 6 /\ radius = 340 ->
           << <<0, -340>>, <<294, -170>>, <<294, 169>>,
              <<0, 340>>, <<-294, 170>>, <<-294, -169>> >>
      [] num_answers = 6 /\ radius = 10 ->
           << <<0, -10>>, <<8, -5>>, <<8, 4>>, <<0, 10>>, <<-8, 5>>, <<-8, -4>> >>

\* len(question.answers) of the questions played
NumAnswers == {2, 3, 4, 6}

\* the positions a bot sends
Coordinates == {-200, -100, 0, 100, 200}
Points == Coordinates \X Coordinates

\* utils.distance_squared; utils.distance is its square root, which orders
\* the answers the same way
distance_squared(v1, v2) ==
    (v1[1] - v2[1]) * (v1[1] - v2[1]) + (v1[2] - v2[2]) * (v1[2] - v2[2])

\* np.argsort(distance_to_answers)[:2]: the indices of the two closest answers,
\* closest first; answers at the same distance come in any order
closest_indices(ap, point) ==
    { ci \in (1..Len(ap)) \X (1..Len(ap)) :
        /\ ci[1] # ci[2]
        /\ \A k \in 1..Len(ap) :
             distance_squared(ap[ci[1]], point) <= distance_squared(ap[k], point)
        /\ \A k \in (1..Len(ap)) \ {ci[1]} :
             distance_squared(ap[ci[2]], point) <= distance_squared(ap[k], point) }

\* determinant of new_basis.T, the matrix whose columns are the two answers
Det(a, b) == a[1] * b[2] - b[1] * a[2]

\* np.linalg.solve raises LinAlgError when the matrix is singular
LinAlgError == [exc |-> "LinAlgError", num |-> << >>, den |-> 0]

\* PositionCodec.encode with the two closest answers ci: the encoded position,
\* or the exception that leaves it
encode(ap, point, ci) ==
    LET a == ap[ci[1]]
        b == ap[ci[2]]
        \* np.linalg.solve(new_basis.T, point) by Cramer's rule
        point_new_basis == << Det(point, b), Det(a, point) >>
    IN  IF Det(a, b) = 0
          THEN LinAlgError
          ELSE [exc |-> "None",
                num |-> [k \in 1..Len(ap) |->
                           IF k = ci[1] THEN point_new_basis[1]
                           ELSE IF k = ci[2] THEN point_new_basis[2] ELSE 0],
                den |-> Det(a, b)]

RECURSIVE Dot(_, _, _, _)
\* sum over the first n answers of answer[axis] * num
Dot(ap, num, axis, n) ==
    IF n = 0 THEN 0 ELSE Dot(ap, num, axis, n - 1) + ap[n][axis] * num[n]

\* PositionCodec.decode of an encoded position: answer_points.T @ encoded
decode_encoded(ap, e) ==
    [num |-> << Dot(ap, e.num, 1, Len(ap)), Dot(ap, e.num, 2, Len(ap)) >>,
     den |-> e.den]

\* the decoded position d is the point p
SamePoint(d, point) ==
    /\ d.num[1] = point[1] * d.den
    /\ d.num[2] = point[2] * d.den

\* HansClient.send_position(position) from a hook of the bot, encode=True:
\* a LinAlgError of encode is caught and logged and the call returns without
\* publishing; otherwise the encoded position is published
SendPosition_Propagate ==
    /\ pc["sim"] = "cd_hook"
    /\ \E p \in Points : \E ci \in closest_indices(codec_points, p) :
         /\ position' = p
         /\ encoded' = encode(codec_points, p, ci)
         /\ IF encode(codec_points, p, ci) = LinAlgError
              THEN /\ raised' = "LinAlgError"
                   /\ pc' = [pc EXCEPT !["sim"] = "cd_raised"]
              ELSE /\ raised' = raised
                   /\ pc' = [pc EXCEPT !["sim"] = "cd_loop"]
         /\ published' = IF encode(codec_points, p, ci) = LinAlgError
                           THEN published ELSE published + 1
    /\ sends' = sends + 1
    /\ UNCHANGED << confVars, stateVars, schedVars, ctlVars, roundVars, trajVars, codec_points, platVars,
                    io_exc, evVars, ioVars, localVars, obsVars, hookVars, callVars,
                    running, exc_info, handler_calls >>

SendPosition ==
    /\ pc["sim"] = "cd_hook"
    /\ \E p \in Points : \E ci \in closest_indices(codec_points, p) :
         /\ position' = p
         /\ encoded' = encode(codec_points, p, ci)
         /\ published' = IF encode(codec_points, p, ci) = LinAlgError
                           THEN published ELSE published + 1
    /\ sends' = sends + 1
    /\ pc' = [pc EXCEPT !["sim"] = "cd_loop"]
    /\ UNCHANGED << confVars, stateVars, schedVars, ctlVars, roundVars, trajVars, codec_points, platVars,
                    io_exc, evVars, ioVars, localVars, obsVars, hookVars, callVars,
                    running, excVars >>

\* the hook returned: the game loop goes on and calls the hook again in its
\* next tick
NextTick ==
    /\ pc["sim"] = "cd_loop"
    /\ sends < MaxSends
    /\ pc' = [pc EXCEPT !["sim"] = "cd_hook"]
    /\ UNCHANGED << confVars, stateVars, extVars, platVars, io_exc, evVars, ioVars,
                    localVars, obsVars, hookVars, callVars, running, excVars >>

\* a round whose HansClient holds PositionCodec(calculate_answer_points(...)),
\* the simulation thread inside a hook of the bot
InitCodec ==
    /\ InitCommon
    /\ cfg = QuitConfig
    /\ exc_handler = "none"
    /\ direct = FALSE
    /\ game_loop = 1
    /\ created = 1
    /\ running = 1
    /\ coro_scheduler = [g \in Loops |-> IF g <= created THEN g ELSE 0]
    /\ pc = [t \in Threads |-> IF t = "sim" THEN "cd_hook" ELSE "unused"]
    /\ codec_points \in { calculate_answer_points(n, hexagon_radius) : n \in NumAnswers }
    /\ position = << 0, 0 >>
    /\ encoded = NotEncoded
    /\ published = 0
    /\ sends = 0

NextCodec ==
    \/ SendPosition
    \/ NextTick

SpecCodec == InitCodec /\ [][NextCodec]_vars

\* ----------------------------------------- TrajectoryGenerator (trajectories.py)
\* Times, deltas and coordinates are rationals << numerator, denominator >>
\* in lowest terms with a positive denominator, a point is a pair of
\* rationals, and every operation of the code is carried out exactly.

\* number of TrajectoryGenerator.step calls
MaxReplays == 4

Abs(x) == IF x < 0 THEN -x ELSE x

RECURSIVE GCD(_, _)
GCD(a, b) == IF b = 0 THEN a ELSE GCD(b, a % b)

Rat(n, d) ==
    LET g == GCD(Abs(n), Abs(d))
        s == IF d < 0 THEN -1 ELSE 1
    IN  << (s * n) \div g, (s * d) \div g >>

Whole(n) == << n, 1 >>
RAdd(a, b) == Rat(a[1] * b[2] + b[1] * a[2], a[2] * b[2])
RSub(a, b) == Rat(a[1] * b[2] - b[1] * a[2], a[2] * b[2])
RMul(a, b) == Rat(a[1] * b[1], a[2] * b[2])
RDiv(a, b) == Rat(a[1] * b[2], a[2] * b[1])
RLess(a, b) == a[1] * b[2] < b[1] * a[2]

\* the non-negative rational whose square is r
ISqrt(n) == CHOOSE k \in 0..n : k * k = n
RSqrt(r) == << ISqrt(r[1]), ISqrt(r[2]) >>

Vec(p) == << Whole(p[1]), Whole(p[2]) >>
VAdd(v, w) == << RAdd(v[1], w[1]), RAdd(v[2], w[2]) >>
VSub(v, w) == << RSub(v[1], w[1]), RSub(v[2], w[2]) >>
VScale(r, v) == << RMul(r, v[1]), RMul(r, v[2]) >>
\* the square of np.linalg.norm(v)
Norm2(v) == RAdd(RMul(v[1], v[1]), RMul(v[2], v[2]))
\* determinant of the matrix whose columns are v and w
RDet(v, w) == RSub(RMul(v[1], w[2]), RMul(w[1], v[2]))

\* lerp
lerp(v0, v1, t) == VAdd(VScale(RSub(Whole(1), t), v0), VScale(t, v1))

\* TrajectoryGenerator.__init__(radius, vertices_pos): the hexagon of a round
\* of radius 10
generator_radius == 10
vertices_pos ==
    [k \in 1..6 |-> Vec(calculate_answer_points(6, generator_radius)[k])]

\* utils.rotate(point, angle) for an angle of n sixths of a turn; the
\* trajectories replayed here are turned by 0 or by half a turn
rotate(v, n) ==
    CASE n % 6 = 0 -> v
      [] n % 6 = 3 -> VScale(Whole(-1), v)

\* calculate_sector(point, vertices): the closest vertex (any of the closest
\* when argsort meets equal distances) and the closer of its two neighbours,
\* as indices from 1
calculate_sector(v, vertices) ==
    LET n == Len(vertices)
        d(k) == Norm2(VSub(vertices[k], v))
    IN  { << c, IF RLess(d((c % n) + 1), d(((c + n - 2) % n) + 1))
                  THEN (c % n) + 1 ELSE ((c + n - 2) % n) + 1 >> :
            c \in { k \in 1..n : \A j \in 1..n : ~RLess(d(j), d(k)) } }

\* PointTransform.__call__(point) in the sector ci of the rotated point
transform_in(v, ci, ang, center, nv) ==
    LET rotated_point == VScale(Whole(generator_radius), rotate(v, ang))
        a == vertices_pos[ci[1]]
        b == vertices_pos[ci[2]]
        \* np.linalg.solve(closest_answer_points.T, rotated_point)
        proportions == << RDiv(RDet(rotated_point, b), RDet(a, b)),
                          RDiv(RDet(a, rotated_point), RDet(a, b)) >>
        new_basis == << VSub(nv[ci[1]], center), VSub(nv[ci[2]], center) >>
    IN  VAdd(VAdd(VScale(proportions[1], new_basis[1]),
                  VScale(proportions[2], new_basis[2])), center)

\* the values PointTransform.__call__(point) can return
transform(v, ang, center, nv) ==
    { transform_in(v, ci, ang, center, nv) :
        ci \in calculate_sector(VScale(Whole(generator_radius), rotate(v, ang)),
                                vertices_pos) }

\* Trajectory.original_duration
original_duration(t) ==
    RSub(t.points[Len(t.points)].timestamp, t.points[1].timestamp)

\* get_factor_from_time(time, trajectory), time inverted
get_factor_from_time_Inverted(time, t) == RDiv(time, original_duration(t))

\* get_factor_from_time(time, trajectory)
get_factor_from_time(time, t) == RDiv(original_duration(t), time)

\* Replayer.duration
duration ==
    RDiv(trajectory.points[Len(trajectory.points)].timestamp, time_multiplier)

\* TrajectoryGenerator.replayer_duration
replayer_duration == duration

\* Replayer.has_finished, true one point early
has_finished_Early(i) == i >= Len(trajectory.points) - 2

\* Replayer.has_finished with _idx = i
has_finished(i) == i = Len(trajectory.points) - 1

RECURSIVE advance(_)
\* the loop of Replayer.step replaced by one test: at most one _advance()
advance_Once(i) ==
    IF ~has_finished(i) /\ ~RLess(elapsed_time, trajectory.points[i + 2].timestamp)
      THEN i + 1
      ELSE i

\* the loop of Replayer.step: _advance() while the next timestamp is reached
advance(i) ==
    IF ~has_finished(i) /\ ~RLess(elapsed_time, trajectory.points[i + 2].timestamp)
      THEN advance(i + 1)
      ELSE i

\* MoveCenterTowardsOrigin.update without the else branch
MoveCenterTowardsOrigin_NoClamp(speed2, center, dt) ==
    LET mag2 == Norm2(center)
        step2 == RMul(speed2, RMul(dt, dt))
    IN  IF mag2 = Whole(0)
          THEN center
          ELSE VSub(center, VScale(RSqrt(RDiv(step2, mag2)), center))

\* MoveCenterTowardsOrigin.update(transform, delta); speed2 is speed squared.
\* The first branch adds to center_pos in place, the second binds a new array
MoveCenterTowardsOrigin(speed2, center, dt) ==
    LET mag2 == Norm2(center)
        step2 == RMul(speed2, RMul(dt, dt))
    IN  IF RLess(step2, mag2)
          THEN VSub(center, VScale(RSqrt(RDiv(step2, mag2)), center))
          ELSE Vec(<< 0, 0 >>)

\* MoveVertexTowardsTarget.update(transform, delta): the vertex is first put
\* on the target and then moved by direction * speed * delta
MoveVertexTowardsTarget(u, nv, dt) ==
    LET disp == VSub(u.target, nv[u.moving_vertex_idx])
        mag2 == Norm2(disp)
        step2 == RMul(u.speed2, RMul(dt, dt))
    IN  [nv EXCEPT ![u.moving_vertex_idx] =
           IF RLess(step2, mag2)
             THEN VAdd(u.target, VScale(RSqrt(RDiv(step2, mag2)), disp))
             ELSE u.target]

\* the recorded trajectories: from the origin to the vertex original_target,
\* timestamps are the seconds elapsed since the first position
Trajectories ==
    { [points |-> << [timestamp |-> Whole(0), norm_position |-> Vec(<< 0, 0 >>)],
                     [timestamp |-> Whole(1), norm_position |-> << Whole(0), Rat(-1, 2) >>],
                     [timestamp |-> Whole(2), norm_position |-> Vec(<< 0, -1 >>)] >>,
       original_target |-> 0],
      [points |-> << [timestamp |-> Whole(0), norm_position |-> Vec(<< 0, 0 >>)],
                     [timestamp |-> Whole(2), norm_position |-> << Whole(0), Rat(1, 2) >>],
                     [timestamp |-> Whole(3), norm_position |-> Vec(<< 0, 1 >>)] >>,
       original_target |-> 3] }

\* the arguments of set_trajectory
Starts == { << 0, 0 >>, << 4, 0 >>, << -3, 4 >> }
Ends == { << 0, -6 >>, << 0, -10 >>, << 3, 6 >> }
DurationOptions ==
    [kind : {"Duration", "number", "TimeMultiplier"}, value : {Whole(2), Whole(4)}]
\* the deltas handed to step
Deltas == {0, 1, 2}

\* TrajectoryGenerator.set_trajectory(start, end, trajectory, duration)
SetTrajectory ==
    /\ pc["sim"] = "tg_idle"
    /\ \E start \in Starts, end \in Ends, t \in Trajectories, d \in DurationOptions :
         \E sector \in calculate_sector(Vec(end), vertices_pos) :
           LET closest_vertex == sector[1]
               tm == IF d.kind = "TimeMultiplier"
                       THEN d.value
                       ELSE get_factor_from_time(d.value, t)
               \* self._replayer.duration()
               dur == RDiv(t.points[Len(t.points)].timestamp, tm)
               \* end - closest_vertex subtracts the index of the vertex,
               \* counted from 0, from both coordinates
               off == VSub(Vec(end), << Whole(closest_vertex - 1), Whole(closest_vertex - 1) >>)
           IN  /\ trajectory' = t
               /\ time_multiplier' = tm
               /\ angle' = (closest_vertex - 1) - t.original_target
               /\ center_pos' = Vec(start)
               /\ start_array' = Vec(start)
               /\ updaters' = [origin_speed2 |-> RDiv(Norm2(Vec(start)), RMul(dur, dur)),
                               speed2 |-> RDiv(Norm2(off), RMul(dur, dur)),
                               target |-> Vec(end),
                               moving_vertex_idx |-> closest_vertex]
               /\ args' = [start |-> start, end |-> end, duration |-> d]
    /\ idx' = 0
    /\ elapsed_time' = Whole(0)
    \* new_vertices is a copy of the vertices; center_pos is the start array
    /\ new_vertices' = vertices_pos
    /\ center_is_start' = TRUE
    /\ pc' = [pc EXCEPT !["sim"] = "tg_ready"]
    /\ UNCHANGED << confVars, stateVars, schedVars, ctlVars, roundVars, codecVars, platVars, io_exc,
                    evVars, ioVars, localVars, obsVars, hookVars, callVars, running,
                    excVars, first_point, returned_point, driven, replays,
                    finished_steps, factor >>

\* TrajectoryGenerator.step(delta): Replayer.step(delta), then every
\* transformation updates the PointTransform
GeneratorStep ==
    /\ pc["sim"] = "tg_ready"
    /\ replays < MaxReplays
    /\ \E dt \in Deltas :
         LET i == advance(idx)
             current_point == trajectory.points[i + 1]
             next_point == trajectory.points[i + 2]
             time_spent == RSub(elapsed_time, current_point.timestamp)
             points ==
               IF has_finished(i)
                 THEN transform(current_point.norm_position, angle, center_pos,
                                new_vertices)
                 ELSE { lerp(vs[1], vs[2],
                             RDiv(time_spent, RSub(next_point.timestamp,
                                                   current_point.timestamp))) :
                          vs \in transform(current_point.norm_position, angle,
                                           center_pos, new_vertices)
                                 \X transform(next_point.norm_position, angle,
                                              center_pos, new_vertices) }
         IN  /\ \E p \in points :
                  /\ returned_point' = p
                  /\ first_point' = IF replays = 0 THEN p ELSE first_point
             /\ idx' = i
             /\ finished_steps' = IF has_finished(i)
                                    THEN finished_steps + 1 ELSE finished_steps
             /\ factor' = IF has_finished(i)
                            THEN factor
                            ELSE RDiv(time_spent, RSub(next_point.timestamp,
                                                       current_point.timestamp))
             \* `center_pos += ...' writes into the array center_pos is
             /\ LET in_place == RLess(RMul(updaters.origin_speed2,
                                           RMul(Whole(dt), Whole(dt))),
                                      Norm2(center_pos))
                IN  /\ center_is_start' = (center_is_start /\ in_place)
                    /\ start_array' =
                         IF center_is_start /\ in_place
                           THEN MoveCenterTowardsOrigin(updaters.origin_speed2,
                                                        center_pos, Whole(dt))
                           ELSE start_array
             /\ elapsed_time' = IF has_finished(i)
                                  THEN elapsed_time
                                  ELSE RAdd(elapsed_time, RMul(Whole(dt), time_multiplier))
             /\ center_pos' = MoveCenterTowardsOrigin(updaters.origin_speed2,
                                                      center_pos, Whole(dt))
             /\ new_vertices' = MoveVertexTowardsTarget(updaters, new_vertices, Whole(dt))
             /\ driven' = driven + dt
    /\ replays' = replays + 1
    /\ UNCHANGED << confVars, stateVars, schedVars, ctlVars, roundVars, codecVars, platVars, io_exc,
                    evVars, ioVars, localVars, obsVars, hookVars, callVars, running,
                    excVars, pc, trajectory, time_multiplier, angle, updaters, args >>

\* a bot that owns a TrajectoryGenerator, sets one trajectory and replays it
InitReplay ==
    /\ InitCommon
    /\ CodecInit
    /\ cfg = QuitConfig
    /\ exc_handler = "none"
    /\ direct = FALSE
    /\ game_loop = 1
    /\ created = 1
    /\ running = 1
    /\ coro_scheduler = [g \in Loops |-> IF g <= created THEN g ELSE 0]
    /\ pc = [t \in Threads |-> IF t = "sim" THEN "tg_idle" ELSE "unused"]

NextReplay ==
    \/ SetTrajectory
    \/ GeneratorStep

SpecReplay == InitReplay /\ [][NextReplay]_vars

\* ------------------------------------------------------------- properties
Calls(c) == CountCalls(tick, c)

\* the loop thread has completed the iteration whose calls are in tick
IterationComplete ==
    \/ pc["sim"] = "sleep"
    \/ pc["sim"] = "loop_test" /\ iterations

CeilDiv(a, b) == (a + b - 1) \div b

\* the bound in force, computed from the configuration
ConfiguredFixedDelta == PerSecond(cfg.tps)
ConfiguredMax == Max(cfg.max_delta_time, ConfiguredFixedDelta)

\* C1: in every iteration of GameLoop.run the calls are fixed_update* (zero or
\* more), then one update, then one Scheduler.step; no fixed_update lies between
\* an update and the step that follows it, and a completed iteration has made
\* exactly one update and exactly one step.
C1_IterationOrder ==
    /\ \A i \in 1..Len(tick) :
         /\ tick[i].call = "fixed_update" =>
              \A j \in 1..i : tick[j].call = "fixed_update"
         /\ tick[i].call = "update" =>
              \A j \in 1..(i - 1) : tick[j].call = "fixed_update"
         /\ tick[i].call = "step" =>
              /\ i = Len(tick)
              /\ i > 1
              /\ tick[i - 1].call = "update"
    /\ IterationComplete =>
         /\ Calls("update") = 1
         /\ Calls("step") = 1
         /\ tick[Len(tick)].call = "step"

C1_Witness ==
    /\ IterationComplete
    /\ Len(tick) >= 4
    /\ tick[1].call = "fixed_update"
    /\ tick[Len(tick)].call = "step"

\* the lifecycle of the round of game loop g is over: finish_session returned,
\* or AgentManager.quit returned on the I/O thread, or the simulation thread
\* terminated after an exception left the round's run()
RoundEnded(g) ==
    \/ session[g] = "stopped"
    \/ pc["io"] = "io_stopped" /\ game_loop = g
    \/ running = g /\ raised # "None" /\ pc["sim"] = "done"

\* C2: across any lifecycle of a round (ended by stop, by manager quit or by an
\* exception raised in a hook or coroutine) close() is invoked exactly once for
\* each setup() that returned successfully: never more than once, and once the
\* lifecycle is over exactly once.
C2_CloseOncePerSetup ==
    \A g \in Loops :
       /\ close_calls[g] <= 1
       /\ (setup_done[g] /\ RoundEnded(g)) => close_calls[g] = 1

\* a step of the loop thread that calls update() or fixed_update()
HookCalled ==
    /\ Len(tick') = Len(tick) + 1
    /\ tick'[Len(tick')].call \in {"fixed_update", "update"}

\* C3: after Loop.close() has been called for a game loop, no update() or
\* fixed_update() call of that loop happens, whatever the interleaving of the
\* thread in GameLoop.quit(timeout) and the loop thread and whatever the timeout.
C3_NoHookAfterClose ==
    [][ (running # 0 /\ close_calls[running] > 0) => ~ HookCalled ]_vars

\* the manager thread waits on game_loop_started again after it ran game loop g
BackWaiting(g) == running = g /\ pc["sim"] = "m_wait"

C5_QuitClosesOnce ==
    \A g \in Loops : close_calls[g] <= 1

\* C6: in any iteration, whatever the measured frame time and the accumulator
\* left over, the number of fixed_update calls is at most
\* ceil(max_delta_time / fixed_delta).
C6_SpiralBound ==
    Calls("fixed_update") <= CeilDiv(ConfiguredMax, ConfiguredFixedDelta)

C6_Witness ==
    /\ measured > ConfiguredMax
    /\ acc0 > 0
    /\ Calls("fixed_update") = CeilDiv(ConfiguredMax, ConfiguredFixedDelta)
    /\ Calls("fixed_update") > ConfiguredMax \div ConfiguredFixedDelta

\* C7: when update is called, the fixed_update calls of the iteration number
\* floor((accumulator_before + min(frame, max_delta_time)) / fixed_delta), and a
\* completed iteration has exactly one update; with fps = tps = 20,
\* max_delta_time = 0.333 s, an empty accumulator and a frame of 1.0 s there are
\* exactly 6 fixed_update calls and one update.
C7_FixedUpdateCount ==
    /\ Calls("update") > 0 =>
         /\ Calls("fixed_update") =
              (acc0 + Min(measured, ConfiguredMax)) \div ConfiguredFixedDelta
         /\ Calls("update") = 1
    /\ ( /\ cfg = [fps |-> 20, tps |-> 20, max_delta_time |-> 333]
         /\ acc0 = 0
         /\ measured = 1000
         /\ IterationComplete )
       => (Calls("fixed_update") = 6 /\ Calls("update") = 1)

C7_Witness ==
    /\ cfg = [fps |-> 20, tps |-> 20, max_delta_time |-> 333]
    /\ acc0 = 0
    /\ measured = 1000
    /\ IterationComplete
    /\ Calls("fixed_update") = 6
    /\ Calls("update") = 1

\* C8: every sync_ratio passed to fixed_update lies in [0, 1): it is the
\* leftover accumulator divided by fixed_delta (tick records its numerator).
C8_SyncRatioInUnitInterval ==
    \A i \in 1..Len(tick) :
       tick[i].call = "fixed_update" =>
          (0 <= tick[i].sync /\ tick[i].sync < ConfiguredFixedDelta)

\* C9: every delta passed to update() satisfies 0 <= delta <= max_delta_time,
\* the max_delta_time in force is never below fixed_delta whatever value was
\* configured, and every delta passed to fixed_update equals fixed_delta.
C9_DeltaBounds ==
    /\ max_delta_time >= ConfiguredFixedDelta
    /\ \A i \in 1..Len(tick) :
         /\ tick[i].call = "update" =>
              (0 <= tick[i].delta /\ tick[i].delta <= ConfiguredMax)
         /\ tick[i].call = "fixed_update" => tick[i].delta = ConfiguredFixedDelta

C9_Witness ==
    /\ cfg.max_delta_time < ConfiguredFixedDelta
    /\ Calls("fixed_update") > 0
    /\ \E i \in 1..Len(tick) :
         /\ tick[i].call = "update"
         /\ tick[i].delta = ConfiguredFixedDelta
         /\ measured > ConfiguredMax

CanRunPcs == InRunPcs \cup {"m_while", "m_wait", "m_check", "m_call", "run_check"}

\* C11: if setup, update, fixed_update or a coroutine resumption raises while
\* the simulation thread runs a Game Loop, the thread stores the exception in
\* exc_info (not None afterwards), invokes the registered handler exactly once
\* (never when none is registered) and runs no further tick or round.
C11_ExceptionCaptured ==
    /\ handler_calls <= 1
    /\ raised = "None" => (exc_info = "None" /\ handler_calls = 0)
    /\ (raised # "None" /\ pc["sim"] # "m_except") =>
         /\ exc_info = raised
         /\ handler_calls = (IF exc_handler = "none" THEN 0 ELSE 1)
         /\ pc["sim"] \notin CanRunPcs

C11_Witness ==
    /\ raised = "coroutine"
    /\ exc_info = "coroutine"
    /\ exc_handler = "quit"
    /\ handler_calls = 1
    /\ pc["sim"] = "q_wait"

\* no thread of the manager model can take a further step
Quiescent == ~ ENABLED Next

\* C12: an exception raised by the bot's close() is handled like an exception
\* in any other hook: once it has been raised and everything has come to rest,
\* the Manager has stored it in exc_info and has invoked the registered handler.
C12_CloseExceptionCaptured ==
    (io_exc = "close" /\ Quiescent) =>
       /\ exc_info = "close"
       /\ exc_handler # "none" => handler_calls = 1

\* thread t is inside AgentManager.quit(), which has not returned
InManagerQuit(t) ==
    \/ pc[t] \in {"mq_set", "mq_loop", "mq_started"}
    \/ pc[t] \in {"q_check", "q_set", "q_wait", "q_close"} /\ ret[t] = "mq_started"

\* C14: AgentManager.quit() called from the I/O thread in any manager state
\* returns, and afterwards the simulation thread leaves its main loop and
\* terminates: with no exception raised anywhere, the threads never come to
\* rest with the I/O thread still inside quit() or with the simulation thread
\* not terminated after quit() returned.
C14_ManagerQuitReturns ==
    (Quiescent /\ raised = "None" /\ io_exc = "None") =>
       /\ ~ InManagerQuit("io")
       /\ pc["io"] = "io_stopped" => pc["sim"] = "done"

\* C15: for any alternating sequence start_session, finish_session, ... (and
\* no AgentManager.quit()), the simulation thread never calls run() on a
\* GameLoop whose quit event is already set: the "already finished" ValueError
\* is never raised.
C15_NeverAlreadyFinished ==
    ~ manager_quit => raised # "ValueError"

\* C13: when a Bot hook or coroutine raises during a round, with the handler
\* that listen() registers, the exception is captured in exc_info, the loop is
\* closed, the bus is disconnected, the simulation thread terminates and
\* listen() re-raises the stored exception; no thread stays blocked forever.
\* Stated on the states in which no thread can take a further step, for runs
\* in which loop_forever is not interrupted and close() does not raise: all
\* of these have happened there.
C13_ExceptionShutsDown ==
    (/\ Quiescent
     /\ exc_handler = "disconnect"
     /\ raised \in {"update", "fixed_update", "coroutine"}
     /\ listen_result # "interrupted"
     /\ io_exc = "None") =>
       /\ exc_info = raised
       /\ close_calls[running] >= 1
       /\ ~ bus_up
       /\ pc["sim"] = "done"
       /\ listen_result = "raised"

\* ------------------------------------------------------------ Shared State
\* the state map after the first n stored updates
RECURSIVE StateAfter(_)
StateAfter(n) ==
    IF n = 0 THEN InitialState
    ELSE SetItem(StateAfter(n - 1), hist[n].id, hist[n].position)

\* no update for participant k has been stored
NeverUpdated(k) == \A j \in 1..Len(hist) : hist[j].id # k

\* C16: for the whole round and after any sequence of State.update calls
\* (including calls with a participant id that is not in the round), the key
\* set of the Shared State equals the round's participant ids: an update for
\* an unknown id is dropped, never inserted.
C16_KeySetIsParticipants ==
    DOMAIN state = Participants

\* C17: for all sequences of State.update and State.get_snapshot calls, every
\* snapshot returned equals the state map at the moment it was taken, and what
\* it reads is still that map after any later update.
C17_SnapshotIsFrozenCopy ==
    \A i \in 1..Len(snapshots) :
        /\ seen[i].map = StateAfter(seen[i].at)
        /\ Contents(snapshots[i]) = seen[i].map

C17_Witness ==
    /\ Len(snapshots) >= 1
    /\ Len(hist) > seen[1].at
    /\ Contents(snapshots[1]) # state
    /\ pc["io"] = "recv"

\* C18: with a writer thread calling State.update and a reader thread calling
\* get_snapshot() concurrently, every snapshot (and the part of it copied so
\* far) equals the state after some prefix of the writer's updates, and its
\* entry for every participant that was never updated is the origin.
C18_SnapshotIsPrefixState ==
    /\ \A i \in 1..Len(snapshots) :
         /\ \E n \in 0..Len(hist) : snapshots[i].map = StateAfter(n)
         /\ \A k \in Participants : NeverUpdated(k) => snapshots[i].map[k] = Origin
    /\ pc["sim"] = "g_copy" =>
         \E n \in 0..Len(hist) :
            \A k \in DOMAIN copying :
               k \in DOMAIN StateAfter(n) /\ copying[k] = StateAfter(n)[k]

C18_Witness ==
    /\ pc["sim"] = "g_copy"
    /\ lock = "sim"
    /\ pc["io"] = "u_lock"
    /\ msg.id = 1
    /\ copying # << >>
    /\ Len(snapshots) = 1
    /\ snapshots[1].map[1] # Origin
    /\ snapshots[1].map[2] = Origin
    /\ NeverUpdated(2)

\* C19: each update()/fixed_update() hook of the bot observes, as its snapshot,
\* a copy of the Shared State read after the previous hook returned and before
\* this hook started: it holds every update stored before the previous hook
\* returned, and an update stored while the hook runs does not change it.
C19_HookSnapshotIsFresh ==
    pc["sim"] = "hook" =>
        LET n == Len(seen) IN
        /\ n = Len(snapshots)
        /\ seen[n].at >= returned_at
        /\ seen[n].at <= Len(hist)
        /\ Contents(snapshots[n]) = StateAfter(seen[n].at)

C19_Witness ==
    /\ pc["sim"] = "hook"
    /\ Len(seen) = 2
    /\ seen[1].at < returned_at
    /\ seen[2].at = returned_at
    /\ seen[2].map # seen[1].map
    /\ Len(hist) > seen[2].at
    /\ Contents(snapshots[2]) # state

\* C20: a position update whose participant id is 0 (the server) never changes
\* the Shared State: the state is identical before and after handling it.
C20_ServerUpdateIgnored ==
    [][msg.id = 0 => state' = state]_vars

C20_Witness ==
    /\ msg.id = 0
    /\ pc["io"] = "recv"
    /\ received >= 2
    /\ state # InitialState

\* --------------------------------------------------------------- Scheduler
\* the position of the task put as number n in the list popped, 0 if absent
PoppedAt(n) ==
    IF \E i \in 1..Len(popped) : popped[i].n = n
      THEN CHOOSE i \in 1..Len(popped) : popped[i].n = n
      ELSE 0

Elems(q) == { q[i] : i \in 1..Len(q) }

\* C21: for any two scheduled tasks A and B with A.wake_at strictly earlier
\* than B.wake_at, A is resumed before B when step() is called after both are
\* due: A is among the tasks the step resumes, and ahead of B when B is too.
C21_EarlierWakeFirst ==
    \A a \in Elems(queued), b \in Elems(queued) :
        (a.until < b.until /\ b.until <= current) =>
            /\ PoppedAt(a.n) > 0
            /\ PoppedAt(b.n) > 0 => PoppedAt(a.n) < PoppedAt(b.n)

C21_Witness ==
    /\ pc["sim"] = "sch_resume"
    /\ \E a \in Elems(queued), b \in Elems(queued) :
          /\ a.until < b.until
          /\ b.until < current
          /\ a.n > b.n
          /\ PoppedAt(a.n) = 1
          /\ PoppedAt(b.n) = 2

\* C22: tasks with equal wake_at are resumed by step() in the order they were
\* inserted, for any number of tied tasks and any insertion history.
C22_TiesInInsertionOrder ==
    \A i \in 1..Len(popped), j \in 1..Len(popped) :
        (i < j /\ popped[i].until = popped[j].until) => popped[i].n < popped[j].n

\* C23: a call to step() at time now resumes every queued task whose
\* wake_at <= now and no task whose wake_at > now.
C23_ResumesExactlyTheDue ==
    (steps >= 1 /\ queued # << >>) =>
        Elems(popped) = { e \in Elems(queued) : e.until <= current }

\* C24: a coroutine that sleeps 0 when resumed in one step() is not resumed
\* again in that same step() and is resumed in the very next step().
C24_SleepZeroNextStep ==
    /\ \A i \in 1..Len(popped), j \in 1..Len(popped) :
          popped[i].coro = popped[j].coro => i = j
    /\ pc["sim"] = "sch_resume" =>
          zero_prev \subseteq { popped[i].coro : i \in 1..Len(popped) }

\* ------------------------------------------------------ quit and the frame
\* C32: once the quit event of a running game loop is set, a loop sleeping
\* in its per-frame wait wakes at once (no frame time passes) and the loop
\* starts no new iteration: from the loop test it only leaves the loop, and
\* until run() returns the calls of the current iteration are only added to,
\* one at a time (they are its remaining fixed_updates, one update and one
\* scheduler step, in the order of C1).
C32_QuitEndsLoop ==
    [][ (pc["sim"] \in InRunPcs /\ quit_ev[running] /\ pc'["sim"] # pc["sim"]) =>
          /\ pc["sim"] = "loop_test" => pc'["sim"] = "finish"
          /\ pc["sim"] = "sleep" => pc'["sim"] = "loop_test" /\ elapsed' = elapsed
          /\ pc'["sim"] # "drain"
          /\ pc'["sim"] \in InRunPcs =>
                /\ Len(tick') \in {Len(tick), Len(tick) + 1}
                /\ SubSeq(tick', 1, Len(tick)) = tick
                /\ Cardinality({ i \in 1..Len(tick') : tick'[i].call = "update" }) <= 1
                /\ Cardinality({ i \in 1..Len(tick') : tick'[i].call = "step" }) <= 1 ]_vars

\* the loop has left its while loop on the quit event after an iteration whose
\* wait was cut short: less than the frame time has passed since it began
C32_Witness ==
    /\ pc["sim"] = "finish"
    /\ quit_ev[running]
    /\ elapsed < self_frame_time
    /\ Len(tick) >= 2
    /\ tick[Len(tick)].call = "step"

\* ------------------------------------------------- finish_session, per round
\* the I/O thread is inside AgentManager.finish_session(), which has not
\* returned
InFinishSession ==
    \/ pc["io"] = "fs_return"
    \/ pc["io"] \in {"q_check", "q_set", "q_wait", "q_close"} /\ ret["io"] = "fs_return"

\* C37: finish_session() called right after start_session() returns, in any
\* interleaving with the simulation thread, also before that thread has
\* entered GameLoop.run: with no exception raised by a hook of the bot, the
\* threads never come to rest with the I/O thread still inside
\* finish_session(), blocked in GameLoop.quit on the completely-finished
\* event.
C37_FinishSessionReturns ==
    (Quiescent /\ raised \in {"None", "ValueError"} /\ io_exc = "None") =>
        ~ InFinishSession

\* ---------------------------------------------------- one Scheduler per round
\* the loop thread calls step() on a Scheduler
StepCalled ==
    /\ Len(tick') = Len(tick) + 1
    /\ tick'[Len(tick')].call = "step"

\* C39: each round gets its own Scheduler: the game loops made by
\* start_session hold pairwise different Schedulers, and a coroutine scheduled
\* during one round is never resumed after that round's game loop has exited,
\* in particular not during a later round: whenever step() is called, it is
\* called by the running loop, which has not finished, and every coroutine it
\* resumes was scheduled by the round of that loop.
C39_OwnSchedulerPerRound ==
    [][ /\ \A g \in Loops, h \in Loops :
              (g # h /\ coro_scheduler'[g] # 0) => coro_scheduler'[g] # coro_scheduler'[h]
        /\ StepCalled =>
              /\ last_resumed'.by = running
              /\ last_resumed'.coros \subseteq {running}
              /\ ~ completely_finished[running]
              /\ pc["sim"] \in InRunPcs ]_vars

\* the loop of the second round has resumed its coroutine while the Scheduler
\* of the first round, which is over, still holds the coroutine of that round
C39_Witness ==
    /\ last_resumed = [by |-> 2, coros |-> {2}]
    /\ completely_finished[1]
    /\ scheduled[coro_scheduler[1]] = {1}

\* ------------------------------------------------ the scheduler, step by step
\* the last call of step() has returned
StepReturned == pc["sim"] = "sch_idle" /\ steps >= 1

\* the places of a coroutine in a queue
PlacesOf(q, coro) == { k \in 1..Len(q) : q[k].coro = coro }

\* C36: after step() returns, every coroutine that was resumed and yielded s
\* is in the queue exactly once, with wake_at equal to the time of its
\* resumption plus s; every coroutine that completed is absent from the queue
\* and is never resumed again; the tasks that were not due are left in the
\* queue unchanged.
C36_QueueAfterStep ==
    /\ StepReturned =>
          /\ \A i \in 1..Len(resumed) :
                resumed[i].slept >= 0 =>
                    /\ Cardinality(PlacesOf(tasks, resumed[i].coro)) = 1
                    /\ \A k \in PlacesOf(tasks, resumed[i].coro) :
                          tasks[k].until = resumed[i].at + resumed[i].slept
          /\ \A e \in Elems(queued) : e \notin Elems(popped) => e \in Elems(tasks)
    /\ \A c \in finished :
          /\ PlacesOf(tasks, c) = {}
          /\ PlacesOf(next_tasks, c) = {}
          /\ \A i \in 1..Len(resumed) : resumed[i].coro = c => resumed[i].slept = -1

C36_Witness ==
    /\ StepReturned
    /\ \E i \in 1..Len(resumed) : resumed[i].slept > 0
    /\ \E i \in 1..Len(resumed) : resumed[i].slept = -1
    /\ \E e \in Elems(queued) : e \notin Elems(popped) /\ e \in Elems(tasks)

\* C38: each call of step() terminates and resumes any given coroutine at
\* most once, also when a resumed coroutine sleeps 0 or starts coroutines
\* with after = 0 during the step: what is resumed was in the queue when the
\* step began, so such tasks are first resumed in a later step.
C38_OncePerStep ==
    /\ \A i \in 1..Len(resumed), j \in 1..Len(resumed) :
          resumed[i].coro = resumed[j].coro => i = j
    /\ \A i \in 1..Len(resumed) : \E e \in Elems(queued) :
          e.coro = resumed[i].coro /\ e.n = resumed[i].n
    /\ Len(resumed) + Len(next_tasks) <= Len(queued)
    /\ pc["sim"] = "sch_resume" => ENABLED (StepResume \/ StepEnd)

C38_Witness ==
    /\ StepReturned
    /\ \E i \in 1..Len(resumed) :
          /\ resumed[i].slept = 0
          /\ \E k \in PlacesOf(tasks, resumed[i].coro) : tasks[k].until < clock
    /\ \E e \in Elems(tasks) :
          /\ PlacesOf(queued, e.coro) = {}
          /\ e.until < clock

\* ------------------------------------------------------- control messages
\* no thread of the platform model can take a further step
QuiescentControl == ~ ENABLED NextControl

\* C25: if a start control message is handled while no question is stored,
\* CannotStartRound is raised and start_session is not called (no Game Loop is
\* created; every round that is created carries a question); the error leaves
\* listen() to the outer caller and, once everything has come to rest, the
\* platform is disconnected and both threads have finished.
C25_StartWithoutQuestion ==
    /\ \A g \in 1..created : round_question[g] # 0
    /\ io_exc = "CannotStartRound" =>
         /\ current_question = 0
         /\ created = 0
         /\ game_loop = 0
         /\ pc["io"] = "io_stopped" => listen_result = "aborted"
         /\ QuiescentControl =>
              /\ listen_result = "aborted"
              /\ ~ connected
              /\ ~ bus_up
              /\ pc["io"] = "io_stopped"
              /\ pc["sim"] = "done"

C25_Witness ==
    /\ io_exc = "CannotStartRound"
    /\ listen_result = "aborted"
    /\ ~ bus_up
    /\ pc["io"] = "io_stopped"
    /\ pc["sim"] = "done"
    /\ created = 0

\* C26: every setup control message whose question is fetched makes the
\* adapter store that question as the current question and publish exactly
\* one ready control message; a later start uses the question of the most
\* recent setup.
C26_SetupStoresQuestion ==
    [][/\ current_question' = latest'
       /\ ready_msgs' = fetched'
       /\ fetched' = fetched + 1 => ready_msgs' = ready_msgs + 1
       /\ created' = created + 1 => (latest # 0 /\ round_question'[created'] = latest)
      ]_vars

C26_Witness ==
    /\ fetched = 2
    /\ ready_msgs = 2
    /\ created = 2
    /\ round_question[1] # round_question[2]
    /\ round_question[2] = latest


\* C27: a send_position call whose encoding fails because the 2x2 system is
\* singular publishes nothing, lets no exception reach the bot and returns,
\* so that the game loop goes on with its next tick.
C27_SingularSendDropped ==
    [][ (sends' = sends + 1 /\ encoded' = LinAlgError)
          => /\ published' = published
             /\ raised' = "None"
             /\ pc'["sim"] = "cd_loop" ]_vars

\* a position was published, the next one could not be encoded and was dropped
C27_Witness ==
    /\ sends = 2
    /\ encoded = LinAlgError
    /\ published = 1
    /\ pc["sim"] = "cd_loop"

\* twice the signed area of the triangle o, a, b
Cross(o, a, b) ==
    (a[1] - o[1]) * (b[2] - o[2]) - (a[2] - o[2]) * (b[1] - o[1])

\* point lies strictly inside the convex hull of the answer points, which
\* calculate_answer_points lists in the order of their angles
StrictlyInside(ap, point) ==
    /\ Len(ap) > 2
    /\ \A k \in 1..Len(ap) : Cross(ap[k], ap[(k % Len(ap)) + 1], point) > 0

\* C28: for every point p strictly inside the convex hull of the answer
\* vertices, encode(p) gives an encoded position and decode of it is p.
C28_RoundTrip ==
    (sends > 0 /\ StrictlyInside(codec_points, position))
      => /\ encoded # LinAlgError
         /\ SamePoint(decode_encoded(codec_points, encoded), position)

\* the trajectory was set with duration=D, a plain number or Duration(D)
SetWithDuration ==
    /\ pc["sim"] = "tg_ready"
    /\ args.duration.kind \in {"Duration", "number"}

\* C29: after set_trajectory(start, end, T, duration=D) the first point step()
\* returns is start, and once step() has been driven for a total time of at
\* least D the last point it returned is end.  The last point is looked at
\* in the most favourable case only: the step() that returned it found the
\* replay finished.
C29_ReplayerEndpoints ==
    /\ (SetWithDuration /\ replays > 0) => first_point = Vec(args.start)
    /\ (/\ SetWithDuration
        /\ replays > 0
        /\ ~RLess(Whole(driven), args.duration.value)
        /\ has_finished(idx))
         => returned_point = Vec(args.end)

\* C30: when a trajectory is set with duration=D, a plain number or
\* Duration(D), replayer_duration() is D.
C30_ReplayerDuration ==
    SetWithDuration => replayer_duration = args.duration.value

\* a trajectory recorded in 3 seconds is set to be replayed in 4
C30_Witness ==
    /\ SetWithDuration
    /\ args.duration = [kind |-> "Duration", value |-> Whole(4)]
    /\ time_multiplier = Rat(3, 4)
    /\ replayer_duration = Whole(4)

\* C31: under any sequence of step(delta) calls with delta >= 0 the index of
\* a Replayer never decreases and stays within 0 .. len(points) - 1;
\* has_finished() is true exactly when the index is len(points) - 1, and
\* once true it stays true at every later step().
C31_IndexAdvances ==
    [][ pc["sim"] = "tg_ready"
          => /\ idx' >= idx
             /\ idx' \in 0..(Len(trajectory.points) - 1)
             /\ (has_finished(idx') <=> idx' = Len(trajectory.points) - 1)
             /\ (has_finished(idx) => has_finished(idx')) ]_vars

\* step() was called again after the call that found the replay finished
C31_Witness ==
    /\ pc["sim"] = "tg_ready"
    /\ has_finished(idx)
    /\ finished_steps >= 2

FromEnd(nv) == VSub(nv[updaters.moving_vertex_idx], updaters.target)

\* C35: at every step the distance of the moving vertex to end does not
\* increase and the vertex does not move past end; once the deltas driven
\* sum to at least replayer_duration the vertex is end.
C35_VertexReachesEnd ==
    [][ (pc["sim"] = "tg_ready" /\ replays' = replays + 1)
          => /\ ~RLess(Norm2(FromEnd(new_vertices)), Norm2(FromEnd(new_vertices')))
             /\ ~RLess(RAdd(RMul(FromEnd(new_vertices')[1], FromEnd(new_vertices)[1]),
                            RMul(FromEnd(new_vertices')[2], FromEnd(new_vertices)[2])),
                       Whole(0))
             /\ (~RLess(Whole(driven'), replayer_duration)
                   => FromEnd(new_vertices') = Vec(<< 0, 0 >>)) ]_vars

\* C40: the array the caller passed as start holds the value it had when
\* set_trajectory was called, after any number of steps.
C40_StartUnmodified ==
    pc["sim"] = "tg_ready" => start_array = Vec(args.start)
====
